---- MODULE Spec2Model ----
(***************************************************************************)
(* A model of the CRO analyzer backend: the relational store behind the    *)
(* two repositories, the schema bring-up of DatabaseServiceImpl, the       *)
(* token-based authentication hook and the auth / analysis routes.         *)
(*                                                                         *)
(* Time is an abstract clock.  SQL NULL is the string NULL for             *)
(* text columns and the empty tuple for numeric ones.  A JSON text is the  *)
(* record [json |-> object]; key order inside an object is not modelled.   *)
(***************************************************************************)
EXTENDS Integers, Sequences, FiniteSets, TLC

VARIABLES
    engine,     \* config.type: "sqlite" or "postgresql"
    revision,   \* which DatabaseServiceImpl is wired: "part_000" or "part_001"
    db,         \* the database: its tables (schema and rows) and its indexes
    mig,        \* the bring-up in progress: position and locals
    now,        \* the clock
    snap,       \* the database as the first completed bring-up left it
    db0,        \* the database as the process first found it
    last,       \* the last repository call made directly: operation, arguments, result
    tokens,     \* the tokens signed so far (a token is its payload)
    job,        \* the analyze request in progress: position and locals
    reply,      \* the last request received and how it was answered
    inflight,   \* the calls that run concurrently: each one's position and locals
    registered  \* the credentials of the registrations that succeeded and that
                \* no deactivation or password change has touched since

http == <<tokens, job, reply, registered, inflight>>

vars ==
    <<engine, revision, db, mig, now, snap, db0, last, tokens, job, reply, registered,
      inflight>>

----------------------------------------------------------------------------
(* Bounds of the model.                                                    *)

MaxLegacy == 2      \* analysis rows a legacy database holds at startup
MaxOldUsers == 2    \* user rows a database holds at startup
MaxTime == 2        \* the clock stops here
MaxRuns == 2        \* bring-up runs on one database
MaxAnalyses == 1    \* analysis records created through the analyze route

----------------------------------------------------------------------------
(* Values.                                                                 *)

NULL == "NULL"
NoNumber == <<>>
Num(n) == <<n>>

Statuses == {"pending", "processing", "completed", "failed"}
Roles == {"admin", "user"}

LegacyIdPool == <<"old1", "old2", "old3">>
OldUserPool == <<"w1", "w2", "w3">>
OldEmail == [w1 |-> "w1@x.io", w2 |-> "w2@x.io", w3 |-> "w3@x.io"]

\* the instants at which the users of a starting database registered, one
\* after another
OldCreatedAt == [w1 |-> 0, w2 |-> 1, w3 |-> 2]

EmptyObject == [k \in {} |-> 0]
JSONstringify(obj) == [json |-> obj]
JSONparse(text) == text.json

\* the texts a metadata column can hold besides a JSON text
NullText == [null |-> TRUE]
EmptyText == [empty |-> TRUE]

\* JavaScript's  a || b : on a string column, on a metadata text, and
\* n || 0  on a number a query returned
StrOrElse(a, b) == IF a \in {NULL, ""} THEN b ELSE a
TextOrElse(a, b) == IF a \in {NullText, EmptyText} THEN b ELSE a
NumOrZero(n) == IF n = NoNumber THEN 0 ELSE n[1]

----------------------------------------------------------------------------
(* The store: db.tables maps each existing table to its column set        *)
(* ("users"; "legacy" = analyses without user_id; "owned" = analyses with  *)
(* user_id NOT NULL and the cascading foreign key; "nullable" = analyses   *)
(* with user_id added in place) and its rows, keyed by primary key.        *)
(* db.indexes holds the named indexes; a name is unique in the database.   *)

EmptyRows == [k \in {} |-> 0]
EmptyDb == [tables |-> [t \in {} |-> 0], indexes |-> {}]

Ok(d) == [ok |-> TRUE, db |-> d]
Err(d) == [ok |-> FALSE, db |-> d]

TableExists(d, t) == t \in DOMAIN d.tables
Rows(d, t) == d.tables[t].rows
Cols(d, t) == d.tables[t].cols

WithTable(d, t, cols, rows) ==
    [d EXCEPT !.tables = (t :> [cols |-> cols, rows |-> rows]) @@ d.tables]

WithRows(d, t, rows) == [d EXCEPT !.tables[t].rows = rows]

\* CREATE TABLE t: an error when the table exists
CreateTable(d, t, cols) ==
    IF TableExists(d, t) THEN Err(d) ELSE Ok(WithTable(d, t, cols, EmptyRows))

\* CREATE TABLE IF NOT EXISTS t
CreateTableIfNotExists(d, t, cols) ==
    IF TableExists(d, t) THEN Ok(d) ELSE Ok(WithTable(d, t, cols, EmptyRows))

IndexNames(d) == {i.name : i \in d.indexes}

\* CREATE INDEX IF NOT EXISTS name ON t(col): a no-op when an index of that
\* name exists on any table, an error when the table is missing
CreateIndexIfNotExists(d, name, t, col) ==
    IF name \in IndexNames(d) THEN Ok(d)
    ELSE IF ~TableExists(d, t) THEN Err(d)
    ELSE Ok([d EXCEPT !.indexes = @ \cup {[name |-> name, table |-> t, col |-> col]}])

\* DROP TABLE t: the table's indexes go with it
DropTable(d, t) ==
    IF ~TableExists(d, t) THEN Err(d)
    ELSE Ok([tables |-> [x \in DOMAIN d.tables \ {t} |-> d.tables[x]],
             indexes |-> {i \in d.indexes : i.table # t}])

\* ALTER TABLE t RENAME TO u: the table's indexes follow it
RenameTable(d, t, u) ==
    IF ~TableExists(d, t) \/ TableExists(d, u) THEN Err(d)
    ELSE Ok([tables |-> [x \in (DOMAIN d.tables \ {t}) \cup {u} |->
                            IF x = u THEN d.tables[t] ELSE d.tables[x]],
             indexes |-> {[name |-> i.name,
                           table |-> IF i.table = t THEN u ELSE i.table,
                           col |-> i.col] : i \in d.indexes}])

UserEmails(d) == {Rows(d, "users")[u].email : u \in DOMAIN Rows(d, "users")}

\* INSERT INTO users: id is the primary key, email is UNIQUE
InsertUser(d, id, row) ==
    IF ~TableExists(d, "users") THEN Err(d)
    ELSE IF id \in DOMAIN Rows(d, "users") \/ row.email \in UserEmails(d) THEN Err(d)
    ELSE Ok(WithRows(d, "users", (id :> row) @@ Rows(d, "users")))

\* INSERT INTO an analyses table: id is the primary key; on a table with the
\* ownership column user_id is NOT NULL and must reference a user
InsertAnalysis(d, t, id, row) ==
    IF ~TableExists(d, t) THEN Err(d)
    ELSE IF id \in DOMAIN Rows(d, t) THEN Err(d)
    ELSE IF Cols(d, t) = "owned" /\ row.user_id = NULL THEN Err(d)
    ELSE IF Cols(d, t) \in {"owned", "nullable"} /\ row.user_id # NULL
            /\ row.user_id \notin DOMAIN Rows(d, "users") THEN Err(d)
    ELSE Ok(WithRows(d, t, (id :> row) @@ Rows(d, t)))

\* ALTER TABLE analyses ADD COLUMN user_id TEXT REFERENCES users(id): the
\* column is added in place, nullable, NULL in every existing row
AddUserIdColumn(d) ==
    IF ~TableExists(d, "analyses") \/ Cols(d, "analyses") # "legacy" THEN Err(d)
    ELSE Ok([d EXCEPT !.tables["analyses"].cols = "nullable"])

----------------------------------------------------------------------------
(* Passwords.  bcrypt.hash gives a value from which bcrypt.compare         *)
(* recognises the password; a stored value that is no bcrypt hash matches  *)
(* no password.                                                            *)

bcryptHash(pw) == [scheme |-> "bcrypt", of |-> pw]
bcryptCompare(pw, stored) == stored.scheme = "bcrypt" /\ stored.of = pw
NotAHash(text) == [scheme |-> "none", of |-> text]

----------------------------------------------------------------------------
(* The repositories, on the embedded engine.  An operation takes the       *)
(* database and gives the database it leaves and what it returns.          *)

Has(obj, k) == k \in DOMAIN obj

\* String.prototype.toLowerCase on the addresses of the model
Lowered == ("A@x.io" :> "a@x.io") @@ ("B@x.io" :> "b@x.io")
toLowerCase(str) == IF str \in DOMAIN Lowered THEN Lowered[str] ELSE str

NotFound == [found |-> FALSE]
Found(obj) == [found |-> TRUE, value |-> obj]

\* UserRepository.mapRowToUser
mapRowToUser(id, row) ==
    [id |-> id, email |-> row.email, password |-> row.password,
     firstName |-> row.first_name, lastName |-> row.last_name,
     role |-> row.role, isActive |-> (row.is_active = TRUE),
     lastLoginAt |-> row.last_login_at,
     createdAt |-> row.created_at, updatedAt |-> row.updated_at]

\* UserRepository.findById
userFindById(d, id) ==
    IF id \in DOMAIN Rows(d, "users")
    THEN Found(mapRowToUser(id, Rows(d, "users")[id])) ELSE NotFound

\* UserRepository.findByEmail: the stored address equals the lowercased one
userFindByEmail(d, email) ==
    LET hits == {u \in DOMAIN Rows(d, "users") :
                    Rows(d, "users")[u].email = toLowerCase(email)} IN
    IF hits = {} THEN NotFound
    ELSE LET u == CHOOSE x \in hits : TRUE IN Found(mapRowToUser(u, Rows(d, "users")[u]))

\* UserRepository.create: the row it inserts, then the insert
NewUserRow(data, t) ==
    [email |-> toLowerCase(data.email),
     password |-> bcryptHash(data.password),
     first_name |-> data.firstName, last_name |-> data.lastName,
     role |-> IF Has(data, "role") THEN StrOrElse(data.role, "user") ELSE "user",
     is_active |-> TRUE, last_login_at |-> NoNumber,
     created_at |-> t, updated_at |-> t]

userCreate(d, id, data, t) == InsertUser(d, id, NewUserRow(data, t))

\* UserRepository.update: the SET list built from the fields of the patch
UserUpdatedRow(row, data, t) ==
    [row EXCEPT
       !.first_name = IF Has(data, "firstName") THEN data.firstName ELSE @,
       !.last_name = IF Has(data, "lastName") THEN data.lastName ELSE @,
       !.role = IF Has(data, "role") THEN data.role ELSE @,
       !.is_active = IF Has(data, "isActive") THEN data.isActive ELSE @,
       !.updated_at = t]

userUpdate(d, id, data, t) ==
    IF id \notin DOMAIN Rows(d, "users") THEN [db |-> d, result |-> NotFound]
    ELSE LET row == UserUpdatedRow(Rows(d, "users")[id], data, t)
             d2 == WithRows(d, "users", [Rows(d, "users") EXCEPT ![id] = row])
         IN [db |-> d2, result |-> userFindById(d2, id)]

\* UserRepository.updateLastLogin
userUpdateLastLogin(d, id, t) ==
    IF id \notin DOMAIN Rows(d, "users") THEN d
    ELSE WithRows(d, "users", [Rows(d, "users") EXCEPT ![id].last_login_at = Num(t)])

\* UserRepository.changePassword
userChangePassword(d, id, newPassword, t) ==
    IF id \notin DOMAIN Rows(d, "users") THEN d
    ELSE WithRows(d, "users",
                  [Rows(d, "users") EXCEPT ![id].password = bcryptHash(newPassword),
                                           ![id].updated_at = t])

\* UserRepository.verifyPassword
verifyPassword(user, password) == bcryptCompare(password, user.password)

\* AnalysisRepository.mapRowToRecord: the record carries no owner
mapRowToRecord(id, row) ==
    [id |-> id, url |-> row.url, pageTitle |-> row.page_title,
     analysis |-> row.analysis, pdfPath |-> row.pdf_path,
     metadata |-> JSONparse(TextOrElse(row.metadata, JSONstringify(EmptyObject))),
     status |-> row.status, errorMessage |-> row.error_message,
     createdAt |-> row.created_at, updatedAt |-> row.updated_at]

\* AnalysisRepository.findById
analysisFindById(d, id) ==
    IF TableExists(d, "analyses") /\ id \in DOMAIN Rows(d, "analyses")
    THEN Found(mapRowToRecord(id, Rows(d, "analyses")[id])) ELSE NotFound

\* AnalysisRepository.create: the INSERT names no user_id, so that column,
\* where the table has it, is left NULL; the status is always pending
NewAnalysisRow(data, t) ==
    [user_id |-> NULL,
     url |-> data.url,
     page_title |-> IF Has(data, "pageTitle") THEN StrOrElse(data.pageTitle, NULL) ELSE NULL,
     analysis |-> "",
     pdf_path |-> NULL,
     metadata |-> JSONstringify(
         (IF Has(data, "metadata") THEN data.metadata ELSE EmptyObject)
         @@ [wordCount |-> 0, analysisTokens |-> 0, pageSize |-> 0]),
     status |-> "pending",
     error_message |-> NULL,
     created_at |-> t,
     updated_at |-> t]

analysisCreate(d, id, data, t) == InsertAnalysis(d, "analyses", id, NewAnalysisRow(data, t))

\* an update that writes the status column on every call, the column default
\* standing in for an absent field
AnalysisUpdatedRowAllColumns(row, data, t) ==
    [row EXCEPT
       !.analysis = IF Has(data, "analysis") THEN data.analysis ELSE @,
       !.pdf_path = IF Has(data, "pdfPath") THEN data.pdfPath ELSE @,
       !.metadata = IF Has(data, "metadata")
                    THEN JSONstringify(data.metadata @@ JSONparse(row.metadata))
                    ELSE @,
       !.status = IF Has(data, "status") THEN data.status ELSE "pending",
       !.error_message = IF Has(data, "errorMessage") THEN data.errorMessage ELSE @,
       !.updated_at = t]

\* an update that stores the metadata patch alone
AnalysisUpdatedRowPatchAlone(row, data, t) ==
    [row EXCEPT
       !.analysis = IF Has(data, "analysis") THEN data.analysis ELSE @,
       !.pdf_path = IF Has(data, "pdfPath") THEN data.pdfPath ELSE @,
       !.metadata = IF Has(data, "metadata")
                    THEN JSONstringify(data.metadata)
                    ELSE @,
       !.status = IF Has(data, "status") THEN data.status ELSE @,
       !.error_message = IF Has(data, "errorMessage") THEN data.errorMessage ELSE @,
       !.updated_at = t]

\* AnalysisRepository.update: the SET list built from the fields of the
\* patch; a metadata patch is laid over the stored metadata
AnalysisUpdatedRow(row, data, t) ==
    [row EXCEPT
       !.analysis = IF Has(data, "analysis") THEN data.analysis ELSE @,
       !.pdf_path = IF Has(data, "pdfPath") THEN data.pdfPath ELSE @,
       !.metadata = IF Has(data, "metadata")
                    THEN JSONstringify(data.metadata @@ mapRowToRecord("", row).metadata)
                    ELSE @,
       !.status = IF Has(data, "status") THEN data.status ELSE @,
       !.error_message = IF Has(data, "errorMessage") THEN data.errorMessage ELSE @,
       !.updated_at = t]

analysisUpdate(d, id, data, t) ==
    IF analysisFindById(d, id) = NotFound THEN [db |-> d, result |-> NotFound]
    ELSE LET row == AnalysisUpdatedRow(Rows(d, "analyses")[id], data, t)
             d2 == WithRows(d, "analyses", [Rows(d, "analyses") EXCEPT ![id] = row])
         IN [db |-> d2, result |-> analysisFindById(d2, id)]

RECURSIVE SumOver(_, _)
SumOver(f, S) ==
    IF S = {} THEN 0
    ELSE LET x == CHOOSE y \in S : TRUE IN f[x] + SumOver(f, S \ {x})

\* SQL SUM(CASE WHEN status = st THEN 1 ELSE 0 END): NULL over no rows
SumCase(rows, st) ==
    IF DOMAIN rows = {} THEN NoNumber
    ELSE Num(Cardinality({id \in DOMAIN rows : rows[id].status = st}))

Rational(n, d) == [num |-> n, den |-> d]
Zero == Rational(0, 1)

\* an average taken over every row, whatever its status
AvgProcessingTimeAllRows(rows) ==
    IF DOMAIN rows = {} THEN NoNumber
    ELSE Num(Rational(SumOver([id \in DOMAIN rows |->
                                 rows[id].updated_at - rows[id].created_at], DOMAIN rows),
                      Cardinality(DOMAIN rows)))

\* SQL AVG(CASE WHEN status = 'completed' THEN seconds between created_at and
\* updated_at ELSE NULL END): NULL when no row is completed
AvgProcessingTime(rows) ==
    LET done == {id \in DOMAIN rows : rows[id].status = "completed"} IN
    IF done = {} THEN NoNumber
    ELSE Num(Rational(SumOver([id \in done |->
                                 rows[id].updated_at - rows[id].created_at], done),
                      Cardinality(done)))

\* avg || 0  on the average a query returned
AvgOrZero(a) == IF a = NoNumber THEN Zero ELSE IF a[1].num = 0 THEN Zero ELSE a[1]

\* AnalysisRepository.getStats
getStats(d) ==
    LET rows == Rows(d, "analyses") IN
    [total |-> NumOrZero(Num(Cardinality(DOMAIN rows))),
     completed |-> NumOrZero(SumCase(rows, "completed")),
     failed |-> NumOrZero(SumCase(rows, "failed")),
     pending |-> NumOrZero(SumCase(rows, "pending")),
     averageProcessingTime |-> AvgOrZero(AvgProcessingTime(rows))]

----------------------------------------------------------------------------
(* Schema bring-up of DatabaseServiceImpl (the revision with the ownership *)
(* column).  Each statement is one step; mig.pc is the statement about to  *)
(* run.                                                                    *)

\* whether the engine's driver accepts "?" placeholders with bound
\* parameters: sqlite3 does, node-postgres wants $1, $2, ...
AcceptsQuestionMarks(e) == e = "sqlite"

\* the users-table statements of runMigrations, in order
UserMigration(d, i) ==
    CASE i = 1 -> CreateTableIfNotExists(d, "users", "users")
      [] i = 2 -> CreateIndexIfNotExists(d, "idx_users_email", "users", "email")
      [] i = 3 -> CreateIndexIfNotExists(d, "idx_users_role", "users", "role")
      [] i = 4 -> CreateIndexIfNotExists(d, "idx_users_is_active", "users", "is_active")

NumUserMigrations == 4

\* the four CREATE INDEX IF NOT EXISTS statements on an analyses table t
AnalysesIndex(d, t, i) ==
    CASE i = 1 -> CreateIndexIfNotExists(d, "idx_analyses_user_id", t, "user_id")
      [] i = 2 -> CreateIndexIfNotExists(d, "idx_analyses_status", t, "status")
      [] i = 3 -> CreateIndexIfNotExists(d, "idx_analyses_created_at", t, "created_at")
      [] i = 4 -> CreateIndexIfNotExists(d, "idx_analyses_url", t, "url")

NumAnalysesIndexes == 4

checkTableExists(d, e, t) ==
    IF e = "sqlite" THEN [ok |-> TRUE, value |-> TableExists(d, t)]
    ELSE IF AcceptsQuestionMarks(e) THEN [ok |-> TRUE, value |-> TableExists(d, t)]
    ELSE [ok |-> FALSE, value |-> FALSE]

\* a check that looks for a column the table never has
checkColumnExistsWrongName(d, e, t) == [ok |-> TRUE, value |-> FALSE]

checkColumnExists(d, e, t) ==
    IF e = "sqlite" THEN [ok |-> TRUE, value |-> Cols(d, t) \in {"owned", "nullable"}]
    ELSE IF AcceptsQuestionMarks(e)
         THEN [ok |-> TRUE, value |-> Cols(d, t) \in {"owned", "nullable"}]
    ELSE [ok |-> FALSE, value |-> FALSE]

defaultUserId == "default-admin-user"

DefaultAdminRow(t) ==
    [email |-> "admin@cro-analyzer.com",
     password |-> NotAHash("default-password-hash"),
     first_name |-> "Default", last_name |-> "Admin",
     role |-> "admin", is_active |-> TRUE, last_login_at |-> NoNumber,
     created_at |-> t, updated_at |-> t]

\* a reinsertion that lets the column default decide the status
MigratedRowDefaultStatus(row, userId) ==
    [row EXCEPT !.user_id = userId, !.status = "pending"]

\* the row recreateAnalysesTableWithUserId inserts into analyses_new for an
\* existing row
MigratedRow(row, userId) ==
    [user_id |-> userId,
     url |-> row.url,
     page_title |-> row.page_title,
     analysis |-> row.analysis,
     pdf_path |-> row.pdf_path,
     metadata |-> TextOrElse(row.metadata, JSONstringify(EmptyObject)),
     status |-> StrOrElse(row.status, "pending"),
     error_message |-> row.error_message,
     created_at |-> row.created_at,
     updated_at |-> row.updated_at]

\* a process that has not called initialize: no connection, the
\* repositories unassigned, fastify.db not decorated
MigIdle == [pc |-> "idle", i |-> 0, existingData |-> EmptyRows, todo |-> {},
            defaultUser |-> NULL, runs |-> 0,
            opened |-> FALSE, repositories |-> FALSE, decorated |-> FALSE]

\* a process whose plugin has resolved on a database brought up before
MigServing == [MigIdle EXCEPT !.pc = "ready", !.runs = 1, !.opened = TRUE,
                              !.repositories = TRUE, !.decorated = TRUE]

Goto(pc) == [mig EXCEPT !.pc = pc, !.i = 1]

\* the state in which initialize resolves: the repositories are assigned
\* and the plugin, which awaited initialize, decorates fastify.db; the first
\* completion is recorded
Ready ==
    /\ mig' = [mig EXCEPT !.pc = "ready", !.i = 0, !.existingData = EmptyRows,
                          !.todo = {}, !.defaultUser = NULL, !.runs = @ + 1,
                          !.repositories = TRUE, !.decorated = TRUE]
    /\ snap' = IF snap.taken THEN snap ELSE [taken |-> TRUE, db |-> db']

\* a statement failed: initialize rejects
Failed ==
    /\ mig' = [mig EXCEPT !.pc = "failed", !.i = 0, !.existingData = EmptyRows,
                          !.todo = {}, !.defaultUser = NULL]
    /\ UNCHANGED snap

\* run one statement whose result is r; on success continue at pc
Exec(r, pc) ==
    IF r.ok THEN /\ db' = r.db
                 /\ IF pc = "ready" THEN Ready ELSE mig' = Goto(pc) /\ UNCHANGED snap
    ELSE /\ db' = r.db
         /\ Failed

\* a service that assigns its repositories before the bring-up whatever
\* the revision
AssignsRepositoriesFirstAlways(rev) == TRUE

\* whether initialize assigns the repositories before it runs the bring-up
\* (the revision without the ownership column) or after it
AssignsRepositoriesFirst(rev) == rev = "part_001"

\* what a connection that cannot be opened does to initialize: the pool's
\* connect() rejects inside the try block, so initialize rejects; the
\* embedded engine reports the error to the open callback, whose throw is
\* outside any try block and ends the process
OpenFailure(e) == IF e = "sqlite" THEN "crashed" ELSE "failed"

\* initialize: the connection is opened, then runMigrations starts
initialize ==
    /\ mig.pc = "idle"
    /\ \E opens \in BOOLEAN :
         mig' = IF opens
                THEN [Goto(IF revision = "part_000" THEN "user_migrations"
                                                    ELSE "migrations")
                        EXCEPT !.opened = TRUE,
                               !.repositories = AssignsRepositoriesFirst(revision)]
                ELSE [mig EXCEPT !.pc = OpenFailure(engine)]
    /\ UNCHANGED <<http, engine, revision, db, now, snap, db0, last>>

\* runMigrations: one of the users-table statements
runMigrations ==
    /\ mig.pc = "user_migrations"
    /\ LET r == UserMigration(db, mig.i) IN
         IF r.ok /\ mig.i < NumUserMigrations
         THEN db' = r.db /\ mig' = [mig EXCEPT !.i = @ + 1] /\ UNCHANGED snap
         ELSE Exec(r, "check_table")
    /\ UNCHANGED <<http, engine, revision, now, db0, last>>

\* migrateAnalysesTable: checkTableExists, then the branch on its answer
migrateAnalysesTable ==
    /\ mig.pc = "check_table"
    /\ LET r == checkTableExists(db, engine, "analyses") IN
         IF ~r.ok THEN Exec(Err(db), "failed")
         ELSE IF ~r.value THEN Exec(Ok(db), "create_analyses")
         ELSE Exec(Ok(db), "check_column")
    /\ UNCHANGED <<http, engine, revision, now, db0, last>>

\* migrateAnalysesTable, no analyses table: CREATE TABLE analyses
createAnalysesTable ==
    /\ mig.pc = "create_analyses"
    /\ Exec(CreateTable(db, "analyses", "owned"), "analyses_indexes")
    /\ UNCHANGED <<http, engine, revision, now, db0, last>>

\* migrateAnalysesTable, no analyses table: one of the four indexes
createAnalysesIndexes ==
    /\ mig.pc = "analyses_indexes"
    /\ LET r == AnalysesIndex(db, "analyses", mig.i) IN
         IF r.ok /\ mig.i < NumAnalysesIndexes
         THEN db' = r.db /\ mig' = [mig EXCEPT !.i = @ + 1] /\ UNCHANGED snap
         ELSE Exec(r, "ready")
    /\ UNCHANGED <<http, engine, revision, now, db0, last>>

\* migrateAnalysesTable, table present: checkColumnExists and its branches;
\* on the client/server engine the column is added in place
checkUserIdColumn ==
    /\ mig.pc = "check_column"
    /\ LET r == checkColumnExists(db, engine, "analyses") IN
         IF ~r.ok THEN Exec(Err(db), "failed")
         ELSE IF r.value THEN Exec(Ok(db), "ready")
         ELSE IF engine = "sqlite" THEN Exec(Ok(db), "select_existing")
         ELSE LET a == AddUserIdColumn(db) IN
              IF ~a.ok THEN Exec(a, "failed")
              ELSE Exec(CreateIndexIfNotExists(a.db, "idx_analyses_user_id",
                                               "analyses", "user_id"), "ready")
    /\ UNCHANGED <<http, engine, revision, now, db0, last>>

\* recreateAnalysesTableWithUserId: SELECT * FROM analyses
selectExisting ==
    /\ mig.pc = "select_existing"
    /\ mig' = [Goto("create_new") EXCEPT
                 !.existingData = IF TableExists(db, "analyses")
                                  THEN Rows(db, "analyses") ELSE EmptyRows]
    /\ UNCHANGED <<http, engine, revision, db, now, snap, db0, last>>

\* recreateAnalysesTableWithUserId: CREATE TABLE analyses_new
createAnalysesNew ==
    /\ mig.pc = "create_new"
    /\ Exec(CreateTable(db, "analyses_new", "owned"), "new_indexes")
    /\ UNCHANGED <<http, engine, revision, now, db0, last>>

\* recreateAnalysesTableWithUserId: one of the four indexes, asked for on
\* analyses_new under the names the analyses table's indexes carry
createNewIndexes ==
    /\ mig.pc = "new_indexes"
    /\ LET r == AnalysesIndex(db, "analyses_new", mig.i) IN
         IF r.ok /\ mig.i < NumAnalysesIndexes
         THEN db' = r.db /\ mig' = [mig EXCEPT !.i = @ + 1] /\ UNCHANGED snap
         ELSE Exec(r, "default_user")
    /\ UNCHANGED <<http, engine, revision, now, db0, last>>

\* createDefaultUserIfNeeded: SELECT * FROM users LIMIT 1 names no order, so
\* any stored user may be the one returned; with no user the admin account
\* is inserted
createDefaultUserIfNeeded ==
    /\ mig.pc = "default_user"
    /\ IF ~TableExists(db, "users") THEN db' = db /\ Failed
       ELSE IF DOMAIN Rows(db, "users") # {}
       THEN /\ \E u \in DOMAIN Rows(db, "users") :
                 mig' = [Goto("insert_rows") EXCEPT
                           !.defaultUser = u, !.todo = DOMAIN mig.existingData]
            /\ UNCHANGED <<db, snap>>
       ELSE LET r == InsertUser(db, defaultUserId, DefaultAdminRow(now)) IN
            IF ~r.ok THEN db' = r.db /\ Failed
            ELSE /\ db' = r.db
                 /\ mig' = [Goto("insert_rows") EXCEPT
                              !.defaultUser = defaultUserId,
                              !.todo = DOMAIN mig.existingData]
                 /\ UNCHANGED snap
    /\ UNCHANGED <<http, engine, revision, now, db0, last>>

\* recreateAnalysesTableWithUserId: the loop that reinserts the existing
\* rows, one INSERT per step
insertExistingRows ==
    /\ mig.pc = "insert_rows"
    /\ mig.todo # {}
    /\ LET id == CHOOSE x \in mig.todo : TRUE
           r == InsertAnalysis(db, "analyses_new", id,
                               MigratedRow(mig.existingData[id], mig.defaultUser))
       IN IF ~r.ok THEN db' = r.db /\ Failed
          ELSE /\ db' = r.db
               /\ mig' = [mig EXCEPT !.todo = @ \ {id}]
               /\ UNCHANGED snap
    /\ UNCHANGED <<http, engine, revision, now, db0, last>>

\* recreateAnalysesTableWithUserId: DROP TABLE analyses
dropOldAnalyses ==
    /\ mig.pc = "insert_rows"
    /\ mig.todo = {}
    /\ Exec(DropTable(db, "analyses"), "rename")
    /\ UNCHANGED <<http, engine, revision, now, db0, last>>

\* recreateAnalysesTableWithUserId: ALTER TABLE analyses_new RENAME TO analyses
renameNewAnalyses ==
    /\ mig.pc = "rename"
    /\ Exec(RenameTable(db, "analyses_new", "analyses"), "ready")
    /\ UNCHANGED <<http, engine, revision, now, db0, last>>

\* the statements of runMigrations in the revision without the ownership
\* column, in order
EarlierMigration(d, i) ==
    CASE i = 1 -> CreateTableIfNotExists(d, "analyses", "legacy")
      [] i = 2 -> CreateIndexIfNotExists(d, "idx_analyses_status", "analyses", "status")
      [] i = 3 -> CreateIndexIfNotExists(d, "idx_analyses_created_at", "analyses", "created_at")
      [] i = 4 -> CreateIndexIfNotExists(d, "idx_analyses_url", "analyses", "url")
      [] i = 5 -> CreateTableIfNotExists(d, "users", "users")
      [] i = 6 -> CreateIndexIfNotExists(d, "idx_users_email", "users", "email")
      [] i = 7 -> CreateIndexIfNotExists(d, "idx_users_role", "users", "role")
      [] i = 8 -> CreateIndexIfNotExists(d, "idx_users_is_active", "users", "is_active")

NumEarlierMigrations == 8

\* runMigrations of the revision without the ownership column: one statement
runMigrationsEarlier ==
    /\ mig.pc = "migrations"
    /\ LET r == EarlierMigration(db, mig.i) IN
         IF r.ok /\ mig.i < NumEarlierMigrations
         THEN db' = r.db /\ mig' = [mig EXCEPT !.i = @ + 1] /\ UNCHANGED snap
         ELSE Exec(r, "ready")
    /\ UNCHANGED <<http, engine, revision, now, db0, last>>

\* how close settles: the embedded engine's promise is returned without
\* being awaited, so its rejection passes the catch block by; the pool's
\* end() is awaited, and the catch block logs its error and throws it again
closeSettles(e, closes) == IF closes THEN "closed" ELSE "close_rejected"

\* DatabaseServiceImpl.close, called by the onClose hook: the connection or
\* pool closes, or closing fails
close ==
    /\ mig.pc = "ready"
    /\ \E closes \in BOOLEAN :
         mig' = [mig EXCEPT !.pc = closeSettles(engine, closes)]
    /\ UNCHANGED <<http, engine, revision, db, now, snap, db0, last>>

\* the process is started again on the same database
Restart ==
    /\ mig.pc \in {"ready", "failed", "crashed", "closed", "close_rejected", "interrupted"}
    /\ mig.runs < MaxRuns
    /\ mig' = [mig EXCEPT !.pc = "idle", !.opened = FALSE, !.repositories = FALSE,
                          !.decorated = FALSE]
    /\ UNCHANGED <<http, engine, revision, db, now, snap, db0, last>>

\* where recreateAnalysesTableWithUserId stands between two of its
\* statements: after the SELECT, after CREATE TABLE analyses_new, after the
\* indexes, after the default user, among the INSERTs, after DROP TABLE
RecreatePositions == {"create_new", "new_indexes", "default_user", "insert_rows", "rename"}

\* the process ends between two statements of the table recreation: every
\* statement is committed on its own, so the database keeps what has been
\* executed and the process's locals are gone
Interrupt ==
    /\ mig.pc \in RecreatePositions
    /\ last.op = "none"
    /\ last' = [op |-> "interrupted", pc |-> mig.pc, i |-> mig.i, todo |-> mig.todo]
    /\ mig' = [mig EXCEPT !.pc = "interrupted", !.i = 0, !.existingData = EmptyRows,
                          !.todo = {}, !.defaultUser = NULL, !.opened = FALSE]
    /\ UNCHANGED <<http, engine, revision, db, now, snap, db0>>

BringUp ==
    \/ initialize
    \/ runMigrations
    \/ migrateAnalysesTable
    \/ createAnalysesTable
    \/ createAnalysesIndexes
    \/ checkUserIdColumn
    \/ selectExisting
    \/ createAnalysesNew
    \/ createNewIndexes
    \/ createDefaultUserIfNeeded
    \/ insertExistingRows
    \/ dropOldAnalyses
    \/ renameNewAnalyses

----------------------------------------------------------------------------
(* Tokens and the authentication service.  A token is its payload; the     *)
(* tokens that verify against the secret are the ones the service signed.  *)
(* One tick of the clock is half the lifetime of a token.                  *)

jwtExpiresIn == 2

NoToken == [none |-> TRUE]
NoUser == [undefined |-> TRUE]

\* a token nobody signed
ForgedToken ==
    [userId |-> "default-admin-user", email |-> "admin@cro-analyzer.com",
     role |-> "admin", iat |-> 0, exp |-> 0, forged |-> TRUE]

\* a token whose role is always user
generateTokenPlainUser(user, t) ==
    [userId |-> user.id, email |-> user.email, role |-> "user",
     iat |-> t, exp |-> t + jwtExpiresIn]

\* AuthServiceImpl.generateToken
generateToken(user, t) ==
    [userId |-> user.id, email |-> user.email, role |-> user.role,
     iat |-> t, exp |-> t + jwtExpiresIn]

\* jwt.verify: the signature is the service's and the token has not expired
jwtVerify(toks, t, tok) == tok \in toks /\ t < tok.exp

Thrown(d, m) == [ok |-> FALSE, db |-> d, message |-> m]
Returned(d, v) == [ok |-> TRUE, db |-> d, value |-> v]

\* the error of a driver that is handed a statement it cannot bind
DriverError == "syntax error at end of input"

\* a verification that looks at the token alone
verifyTokenSignatureOnly(d, e, toks, t, tok) ==
    IF jwtVerify(toks, t, tok) THEN Returned(d, tok) ELSE Thrown(d, "Invalid token")

\* AuthServiceImpl.verifyToken
verifyToken(d, e, toks, t, tok) ==
    IF ~jwtVerify(toks, t, tok) THEN Thrown(d, "Invalid token")
    ELSE IF ~AcceptsQuestionMarks(e) THEN Thrown(d, DriverError)
    ELSE LET user == userFindById(d, tok.userId) IN
         IF ~user.found THEN Thrown(d, "User not found or inactive")
         ELSE IF ~user.value.isActive THEN Thrown(d, "User not found or inactive")
         ELSE Returned(d, tok)

\* the user object the auth routes answer with
PublicUser(user) ==
    [id |-> user.id, email |-> user.email, firstName |-> user.firstName,
     lastName |-> user.lastName, role |-> user.role]

\* AuthServiceImpl.login
authLogin(d, e, credentials, t) ==
    IF ~AcceptsQuestionMarks(e) THEN Thrown(d, DriverError)
    ELSE LET user == userFindByEmail(d, credentials.email) IN
         IF ~user.found THEN Thrown(d, "Invalid email or password")
         ELSE IF ~user.value.isActive THEN Thrown(d, "Account is deactivated")
         ELSE IF ~verifyPassword(user.value, credentials.password)
              THEN Thrown(d, "Invalid email or password")
         ELSE Returned(userUpdateLastLogin(d, user.value.id, t),
                       [token |-> generateToken(user.value, t),
                        user |-> PublicUser(user.value)])

\* a registration that goes straight to the insert
authRegisterWithoutLookup(d, e, id, userData, t) ==
    LET r == userCreate(d, id, userData, t) IN
    IF ~r.ok THEN Thrown(d, "SQLITE_CONSTRAINT: UNIQUE constraint failed: users.email")
    ELSE LET user == userFindById(r.db, id).value IN
         Returned(r.db, [token |-> generateToken(user, t), user |-> PublicUser(user)])

\* AuthServiceImpl.register
authRegister(d, e, id, userData, t) ==
    IF ~AcceptsQuestionMarks(e) THEN Thrown(d, DriverError)
    ELSE IF userFindByEmail(d, userData.email).found
         THEN Thrown(d, "User with this email already exists")
    ELSE LET r == userCreate(d, id, userData, t) IN
         IF ~r.ok THEN Thrown(d, "SQLITE_CONSTRAINT: UNIQUE constraint failed: users.email")
         ELSE LET user == userFindById(r.db, id).value IN
              Returned(r.db, [token |-> generateToken(user, t), user |-> PublicUser(user)])

----------------------------------------------------------------------------
(* The authentication hook and the route handlers.  A handler takes the    *)
(* database and the request and gives the status and body it answers with, *)
(* the database it leaves and the tokens it signed.                        *)

publicRoutes == {"/api/auth/login", "/api/auth/register", "/health", "/health/db", "/"}

\* a hook that lets the request through when the token is refused
onRequestLetsRefusedThrough(d, e, toks, t, url, tok) ==
    IF url \in publicRoutes THEN [sent |-> FALSE, user |-> NoUser]
    ELSE IF tok = NoToken THEN [sent |-> TRUE, user |-> NoUser]
    ELSE LET v == verifyToken(d, e, toks, t, tok) IN
         IF v.ok THEN [sent |-> FALSE, user |-> v.value]
         ELSE [sent |-> FALSE, user |-> NoUser]

\* the onRequest hook: whether it answered (401) and what it left in
\* request.user
onRequest(d, e, toks, t, url, tok) ==
    IF url \in publicRoutes THEN [sent |-> FALSE, user |-> NoUser]
    ELSE IF tok = NoToken THEN [sent |-> TRUE, user |-> NoUser]
    ELSE LET v == verifyToken(d, e, toks, t, tok) IN
         IF v.ok THEN [sent |-> FALSE, user |-> v.value]
         ELSE [sent |-> TRUE, user |-> NoUser]

Sent(status, body, d, issued) ==
    [status |-> status, body |-> body, db |-> d, issued |-> issued]

\* !obj.k  on a field of a request body
Falsy(obj, k) == ~Has(obj, k) \/ obj[k] = ""

\* emailRegex.test on the addresses of the model
emailRegexTest(s) == s \notin {"nobody", "nobody@", "@x.io"}

\* String.prototype.includes on the messages of the model
includes(message, part) ==
    <<message, part>> \in
        {<<"User with this email already exists", "already exists">>,
         <<"Invalid email or password", "Invalid email or password">>,
         <<"Account is deactivated", "Account is deactivated">>}

MinPasswordLength == 8

\* POST /api/auth/register
registerRoute(d, e, id, userData, t) ==
    IF Falsy(userData, "email") \/ Falsy(userData, "password")
          \/ Falsy(userData, "firstName") \/ Falsy(userData, "lastName")
    THEN Sent(400, [error |-> "Missing required fields"], d, {})
    ELSE IF ~emailRegexTest(userData.email)
    THEN Sent(400, [error |-> "Invalid email format"], d, {})
    ELSE IF Len(userData.password) < MinPasswordLength
    THEN Sent(400, [error |-> "Weak password"], d, {})
    ELSE LET r == authRegister(d, e, id, userData, t) IN
         IF r.ok
         THEN Sent(201, [message |-> "User registered successfully",
                         token |-> r.value.token, user |-> r.value.user],
                   r.db, {r.value.token})
         ELSE IF includes(r.message, "already exists")
         THEN Sent(409, [error |-> "User already exists", message |-> r.message], r.db, {})
         ELSE Sent(500, [error |-> "Registration failed", message |-> r.message], r.db, {})

\* POST /api/auth/login
loginRoute(d, e, credentials, t) ==
    IF Falsy(credentials, "email") \/ Falsy(credentials, "password")
    THEN Sent(400, [error |-> "Missing credentials"], d, {})
    ELSE LET r == authLogin(d, e, credentials, t) IN
         IF r.ok
         THEN Sent(200, [message |-> "Login successful",
                         token |-> r.value.token, user |-> r.value.user],
                   r.db, {r.value.token})
         ELSE IF includes(r.message, "Invalid email or password")
                   \/ includes(r.message, "Account is deactivated")
         THEN Sent(401, [error |-> "Authentication failed", message |-> r.message], r.db, {})
         ELSE Sent(500, [error |-> "Login failed", message |-> r.message], r.db, {})

\* POST /api/auth/change-password
changePasswordRoute(d, e, user, body, t) ==
    IF user = NoUser THEN Sent(401, [error |-> "Unauthorized"], d, {})
    ELSE IF Falsy(body, "currentPassword") \/ Falsy(body, "newPassword")
    THEN Sent(400, [error |-> "Missing passwords"], d, {})
    ELSE IF Len(body.newPassword) < MinPasswordLength
    THEN Sent(400, [error |-> "Weak password"], d, {})
    ELSE IF ~AcceptsQuestionMarks(e)
    THEN Sent(500, [error |-> "Failed to change password", message |-> DriverError], d, {})
    ELSE LET found == userFindById(d, user.userId) IN
         IF ~found.found THEN Sent(404, [error |-> "User not found"], d, {})
         ELSE IF ~verifyPassword(found.value, body.currentPassword)
         THEN Sent(400, [error |-> "Invalid password"], d, {})
         ELSE Sent(200, [message |-> "Password changed successfully"],
                   userChangePassword(d, found.value.id, body.newPassword, t), {})

\* UserRepository.find with a role filter or none: the rows selected,
\* without their order; the statement has a placeholder only when there is
\* a filter
userFind(d, e, filters) ==
    IF Has(filters, "role") /\ ~AcceptsQuestionMarks(e) THEN Thrown(d, DriverError)
    ELSE Returned(d, {mapRowToUser(id, Rows(d, "users")[id]) :
                        id \in {u \in DOMAIN Rows(d, "users") :
                                  Has(filters, "role") =>
                                      Rows(d, "users")[u].role = filters.role}})

\* the analyses rows that go with a users row when it is deleted: those that
\* reference it, where the table has the foreign key (ON DELETE CASCADE)
CascadeFrom(d, id) ==
    IF TableExists(d, "analyses") /\ Cols(d, "analyses") \in {"owned", "nullable"}
    THEN {a \in DOMAIN Rows(d, "analyses") : Rows(d, "analyses")[a].user_id = id}
    ELSE {}

\* a deletion that leaves the analyses table alone
userDeleteWithoutCascade(d, e, id) ==
    IF ~AcceptsQuestionMarks(e) THEN Thrown(d, DriverError)
    ELSE IF id \notin DOMAIN Rows(d, "users") THEN Returned(d, FALSE)
    ELSE Returned(WithRows(d, "users",
                           [u \in DOMAIN Rows(d, "users") \ {id} |-> Rows(d, "users")[u]]),
                  TRUE)

\* UserRepository.delete: the row goes, and with it the rows that reference
\* it (foreign keys are enforced on the connection)
userDelete(d, e, id) ==
    IF ~AcceptsQuestionMarks(e) THEN Thrown(d, DriverError)
    ELSE IF id \notin DOMAIN Rows(d, "users") THEN Returned(d, FALSE)
    ELSE LET d1 == WithRows(d, "users",
                            [u \in DOMAIN Rows(d, "users") \ {id} |-> Rows(d, "users")[u]])
             gone == CascadeFrom(d, id)
         IN Returned(IF gone = {} THEN d1
                     ELSE WithRows(d1, "analyses",
                                   [a \in DOMAIN Rows(d, "analyses") \ gone |->
                                       Rows(d, "analyses")[a]]),
                     TRUE)

\* a user object that keeps every field of the stored user
SafeUserWholeUser(user) == user

\* the fields of a user that GET /users and GET /profile answer with
SafeUser(user) ==
    [id |-> user.id, email |-> user.email, firstName |-> user.firstName,
     lastName |-> user.lastName, role |-> user.role, isActive |-> user.isActive,
     lastLoginAt |-> user.lastLoginAt, createdAt |-> user.createdAt,
     updatedAt |-> user.updatedAt]

\* GET /api/auth/profile
profileRoute(d, e, user) ==
    IF user = NoUser THEN Sent(401, [error |-> "Unauthorized"], d, {})
    ELSE IF ~AcceptsQuestionMarks(e)
    THEN Sent(500, [error |-> "Failed to get profile", message |-> DriverError], d, {})
    ELSE LET found == userFindById(d, user.userId) IN
         IF ~found.found THEN Sent(404, [error |-> "User not found"], d, {})
         ELSE Sent(200, [user |-> SafeUser(found.value)], d, {})

\* AuthServiceImpl.refreshToken
authRefreshToken(d, e, userId, t) ==
    IF ~AcceptsQuestionMarks(e) THEN Thrown(d, DriverError)
    ELSE LET user == userFindById(d, userId) IN
         IF ~user.found THEN Thrown(d, "User not found or inactive")
         ELSE IF ~user.value.isActive THEN Thrown(d, "User not found or inactive")
         ELSE Returned(d, generateToken(user.value, t))

\* POST /api/auth/refresh
refreshRoute(d, e, user, t) ==
    IF user = NoUser THEN Sent(401, [error |-> "Unauthorized"], d, {})
    ELSE LET r == authRefreshToken(d, e, user.userId, t) IN
         IF r.ok
         THEN Sent(200, [message |-> "Token refreshed successfully", token |-> r.value],
                   d, {r.value})
         ELSE Sent(500, [error |-> "Failed to refresh token", message |-> r.message], d, {})

\* a check that lets every signed-in caller through
AdminRequiredOfNobody(user) == user = NoUser

\* !request.user || request.user.role !== 'admin'
AdminRequired(user) == user = NoUser \/ user.role # "admin"

\* GET /api/auth/users
usersRoute(d, e, user, query) ==
    IF AdminRequired(user)
    THEN Sent(403, [error |-> "Forbidden", message |-> "Admin access required"], d, {})
    ELSE LET r == userFind(d, e, query) IN
         IF r.ok THEN Sent(200, [users |-> {SafeUser(u) : u \in r.value}], d, {})
         ELSE Sent(500, [error |-> "Failed to get users", message |-> r.message], d, {})

\* AnalysisRepository.find with a status filter or none: the rows selected,
\* without their order; filters.userId is never looked at; the statement
\* has a placeholder only when there is a status filter
analysisFind(d, e, filters) ==
    IF Has(filters, "status") /\ ~AcceptsQuestionMarks(e) THEN Thrown(d, DriverError)
    ELSE Returned(d, {mapRowToRecord(id, Rows(d, "analyses")[id]) :
                        id \in {a \in DOMAIN Rows(d, "analyses") :
                                  Has(filters, "status") =>
                                      Rows(d, "analyses")[a].status = filters.status}})

\* GET /api/cro/analyses
analysesRoute(d, e, user, query) ==
    IF user = NoUser THEN Sent(401, [error |-> "Authentication required"], d, {})
    ELSE LET r == analysisFind(d, e, [userId |-> user.userId] @@ query) IN
         IF r.ok THEN Sent(200, [analyses |-> r.value], d, {})
         ELSE Sent(500, [error |-> "Failed to retrieve analyses", details |-> r.message],
                   d, {})

undefined == "undefined"

\* a check that lets every authenticated caller through
AccessDeniedNever(analysis, user) == FALSE

\* analysis.userId !== request.user.userId
AccessDenied(analysis, user) ==
    (IF Has(analysis, "userId") THEN analysis.userId ELSE undefined) # user.userId

\* GET /api/cro/analysis/:id
getAnalysisRoute(d, e, user, id) ==
    IF user = NoUser THEN Sent(401, [error |-> "Authentication required"], d, {})
    ELSE IF ~AcceptsQuestionMarks(e)
    THEN Sent(500, [error |-> "Failed to retrieve analysis", details |-> DriverError], d, {})
    ELSE LET analysis == analysisFindById(d, id) IN
         IF ~analysis.found THEN Sent(404, [error |-> "Analysis not found"], d, {})
         ELSE IF AccessDenied(analysis.value, user)
         THEN Sent(403, [error |-> "Access denied"], d, {})
         ELSE Sent(200, analysis.value, d, {})

\* what is known of the last request: the route and the request's content,
\* the token it carried, what the hook did ("skipped" on a public route,
\* "rejected", "passed"), request.user, whether the handler ran, the status
\* (0 while no answer has been sent) and body of the answer, and the
\* analysis record the request created
Reply(route, request, tok, hook, user, handled, status, body, record) ==
    [route |-> route, request |-> request, token |-> tok, hook |-> hook,
     user |-> user, handled |-> handled, status |-> status, body |-> body,
     record |-> record]

NoReply == Reply("none", EmptyObject, NoToken, "none", NoUser, FALSE, 0, EmptyObject, NULL)

Unauthorized == [error |-> "Unauthorized"]

\* the analyze request in progress
NoJob ==
    [pc |-> "none", id |-> NULL, request |-> EmptyObject, token |-> NoToken,
     user |-> NoUser, pageData |-> EmptyObject, analysis |-> ""]

----------------------------------------------------------------------------
(* The databases a process can find at startup: an empty one, or one that  *)
(* an earlier revision's bring-up created (analyses without the ownership  *)
(* column, with its three indexes; with or without a users table) and that *)
(* has since been written to through the repositories.                     *)

Engines == {"sqlite", "postgresql"}

Prefix(pool, k) == {pool[i] : i \in 1..k}

InitialMetadata == [wordCount |-> 0, analysisTokens |-> 0, pageSize |-> 0]

ScrapedMetadata ==
    [wordCount |-> 2, analysisTokens |-> 0, pageSize |-> 5,
     screenshotPath |-> "landing-page-snapshot.png"]

\* a row as the analysis route leaves it in each status
LegacyRow(status) ==
    [user_id |-> NULL,
     url |-> "https://a.io",
     page_title |-> NULL,
     analysis |-> IF status = "completed" THEN "report" ELSE "",
     pdf_path |-> IF status = "completed" THEN "reports/CRO_Report.pdf" ELSE NULL,
     metadata |-> JSONstringify(IF status = "completed"
                                THEN [ScrapedMetadata EXCEPT !.analysisTokens = 6]
                                ELSE InitialMetadata),
     status |-> status,
     error_message |-> IF status = "failed" THEN "CRO Service not available" ELSE NULL,
     created_at |-> 0,
     updated_at |-> IF status = "pending" THEN 0 ELSE 1]

OldUserRow(id) ==
    [email |-> OldEmail[id],
     password |-> bcryptHash("password1"),
     first_name |-> "Old", last_name |-> "User",
     role |-> "user", is_active |-> TRUE, last_login_at |-> NoNumber,
     created_at |-> OldCreatedAt[id], updated_at |-> OldCreatedAt[id]]

LegacyIndexes ==
    {[name |-> "idx_analyses_status", table |-> "analyses", col |-> "status"],
     [name |-> "idx_analyses_created_at", table |-> "analyses", col |-> "created_at"],
     [name |-> "idx_analyses_url", table |-> "analyses", col |-> "url"]}

UsersIndexes ==
    {[name |-> "idx_users_email", table |-> "users", col |-> "email"],
     [name |-> "idx_users_role", table |-> "users", col |-> "role"],
     [name |-> "idx_users_is_active", table |-> "users", col |-> "is_active"]}

LegacyTables ==
    UNION {{[id \in Prefix(LegacyIdPool, k) |-> LegacyRow(st[id])] :
              st \in [Prefix(LegacyIdPool, k) -> Statuses]} : k \in 0..MaxLegacy}

OldUsersTables ==
    {[id \in Prefix(OldUserPool, k) |-> OldUserRow(id)] : k \in 0..MaxOldUsers}

LegacyDbs ==
    {[tables |-> ("analyses" :> [cols |-> "legacy", rows |-> a]),
      indexes |-> LegacyIndexes] : a \in LegacyTables}
    \cup
    {[tables |-> ("analyses" :> [cols |-> "legacy", rows |-> a])
                 @@ ("users" :> [cols |-> "users", rows |-> u]),
      indexes |-> LegacyIndexes \cup UsersIndexes] :
        a \in LegacyTables, u \in OldUsersTables}

StartDbs == {EmptyDb} \cup LegacyDbs

\* no call runs concurrently with another
NoInflight == <<>>

NoSnap == [taken |-> FALSE, db |-> EmptyDb]
NoCall == [op |-> "none"]

----------------------------------------------------------------------------
(* SpecMig: the bring-up alone, run and run again on every starting        *)
(* database and either engine.                                             *)

InitMig ==
    /\ engine \in Engines
    /\ revision = "part_000"
    /\ db \in StartDbs
    /\ db0 = db
    /\ mig = MigIdle
    /\ now = MaxTime
    /\ snap = NoSnap
    /\ last = NoCall
    /\ tokens = {}
    /\ job = NoJob
    /\ reply = NoReply
    /\ registered = {}
    /\ inflight = NoInflight

NextMig == BringUp \/ close \/ Restart

SpecMig == InitMig /\ [][NextMig]_vars

\* SpecCrash: the bring-up of SpecMig with the process ending once in the
\* middle of the table recreation and being started again
NextCrash == BringUp \/ Interrupt \/ Restart

SpecCrash == InitMig /\ [][NextCrash]_vars

----------------------------------------------------------------------------
(* SpecRepo: one repository call on each database of a bounded family: the *)
(* databases an earlier bring-up and the routes have left, with a users    *)
(* table.                                                                  *)

Opt(k, values) == {EmptyObject} \cup {k :> v : v \in values}

AnalysisPatches ==
    {a @@ b @@ c @@ d @@ e :
        a \in Opt("analysis", {"report2"}),
        b \in Opt("pdfPath", {"reports/CRO_Report_2.pdf"}),
        c \in Opt("metadata", {[analysisTokens |-> 7],
                               [wordCount |-> 3, loadTime |-> 4]}),
        d \in Opt("status", {"processing", "completed", "failed"}),
        e \in Opt("errorMessage", {"boom"})}

UserPatches ==
    {a @@ b @@ c @@ d :
        a \in Opt("firstName", {"New"}),
        b \in Opt("lastName", {"Name"}),
        c \in Opt("role", Roles),
        d \in Opt("isActive", BOOLEAN)}

MissingId == "missing"

RepoDbs == {d \in LegacyDbs : TableExists(d, "users")}

InitRepo ==
    /\ engine = "sqlite"
    /\ revision = "part_001"
    /\ db \in RepoDbs
    /\ db0 = db
    /\ mig = MigServing
    /\ now = MaxTime
    /\ snap = NoSnap
    /\ last = NoCall
    /\ tokens = {}
    /\ job = NoJob
    /\ reply = NoReply
    /\ registered = {}
    /\ inflight = NoInflight

\* AnalysisRepository.update(id, data)
AnalysisRepositoryUpdate ==
    /\ last = NoCall
    /\ \E id \in DOMAIN Rows(db, "analyses") \cup {MissingId}, data \in AnalysisPatches :
         LET r == analysisUpdate(db, id, data, now) IN
         /\ db' = r.db
         /\ last' = [op |-> "AnalysisRepository.update", id |-> id, data |-> data,
                     result |-> r.result]
    /\ UNCHANGED <<http, engine, revision, mig, now, snap, db0>>

\* UserRepository.update(id, data)
UserRepositoryUpdate ==
    /\ last = NoCall
    /\ \E id \in DOMAIN Rows(db, "users") \cup {MissingId}, data \in UserPatches :
         LET r == userUpdate(db, id, data, now) IN
         /\ db' = r.db
         /\ last' = [op |-> "UserRepository.update", id |-> id, data |-> data,
                     result |-> r.result]
    /\ UNCHANGED <<http, engine, revision, mig, now, snap, db0>>

\* UserRepository.updateLastLogin(id)
UserRepositoryUpdateLastLogin ==
    /\ last = NoCall
    /\ \E id \in DOMAIN Rows(db, "users") \cup {MissingId} :
         /\ db' = userUpdateLastLogin(db, id, now)
         /\ last' = [op |-> "UserRepository.updateLastLogin", id |-> id]
    /\ UNCHANGED <<http, engine, revision, mig, now, snap, db0>>

\* UserRepository.changePassword(id, newPassword)
UserRepositoryChangePassword ==
    /\ last = NoCall
    /\ \E id \in DOMAIN Rows(db, "users") \cup {MissingId} :
         /\ db' = userChangePassword(db, id, "password2", now)
         /\ last' = [op |-> "UserRepository.changePassword", id |-> id,
                     result |-> id \in DOMAIN Rows(db, "users")]
    /\ UNCHANGED <<http, engine, revision, mig, now, snap, db0>>

\* AnalysisRepository.getStats()
AnalysisRepositoryGetStats ==
    /\ last = NoCall
    /\ last' = [op |-> "AnalysisRepository.getStats", result |-> getStats(db)]
    /\ UNCHANGED <<http, engine, revision, db, mig, now, snap, db0>>

NextRepo ==
    \/ AnalysisRepositoryUpdate
    \/ UserRepositoryUpdate
    \/ UserRepositoryUpdateLastLogin
    \/ UserRepositoryChangePassword
    \/ AnalysisRepositoryGetStats

SpecRepo == InitRepo /\ [][NextRepo]_vars

----------------------------------------------------------------------------
(* The requests.  A request is one step, except the analyze request,       *)
(* whose awaited stages are one step each.  Requests are served one after  *)
(* another.  The clock stands still while a specification runs: the        *)
(* instant is chosen at the start, and the tokens signed earlier are given *)
(* with it.                                                                *)

Range(seq) == {seq[i] : i \in DOMAIN seq}

\* the ids uuidv4 gives to the rows created while serving
NewUserPool == <<"u1", "u2", "u3", "u4">>
NewAnalysisPool == <<"n1", "n2", "n3">>

CreatedUsers(d) == DOMAIN Rows(d, "users") \cap Range(NewUserPool)
CreatedAnalyses(d) == DOMAIN Rows(d, "analyses") \cap Range(NewAnalysisPool)

FreshUserId(d) == NewUserPool[Cardinality(CreatedUsers(d)) + 1]
FreshAnalysisId(d) == NewAnalysisPool[Cardinality(CreatedAnalyses(d)) + 1]

Names == [firstName |-> "F", lastName |-> "L"]

RegisterBodies ==
    {[email |-> e, password |-> "password1"] @@ Names @@ r :
        e \in {"a@x.io", "A@x.io"}, r \in Opt("role", {"admin"})}
    \cup {[email |-> "b@x.io", password |-> "password1"] @@ Names,
          [email |-> "nobody", password |-> "password1"] @@ Names,
          [email |-> "a@x.io", password |-> "short"] @@ Names,
          [email |-> "a@x.io", password |-> "password1", firstName |-> "F"]}

LoginBodies ==
    {[email |-> e, password |-> "password1"] : e \in {"a@x.io", "A@x.io", "b@x.io"}}
    \cup {[email |-> "a@x.io", password |-> "password2"], [email |-> "a@x.io"]}

ChangePasswordBodies ==
    {[currentPassword |-> "password1", newPassword |-> "password2"],
     [currentPassword |-> "password1", newPassword |-> "short"],
     [currentPassword |-> "password1"]}

AnalyzeBodies == {[url |-> "https://a.io"], EmptyObject}

\* the Authorization headers a request can carry: none, or a scheme
\* followed by a token the service signed or by a forged one
NoHeader == [absent |-> TRUE]

AuthorizationHeaders ==
    {NoHeader} \cup
    {[scheme |-> s, credentials |-> tok] :
        s \in {"Bearer ", ""}, tok \in tokens \cup {ForgedToken}}
    \cup {[scheme |-> "Basic ", credentials |-> ForgedToken]}

\* request.headers.authorization?.replace('Bearer ', ''): the prefix is
\* removed when it is there, and anything else is left as it is
bearerToken(header) ==
    IF header = NoHeader THEN NoToken
    ELSE IF header.scheme \in {"Bearer ", ""} THEN header.credentials
    ELSE [text |-> header]

\* the tokens the hook can find in a request
RequestTokens == {bearerToken(header) : header \in AuthorizationHeaders}

\* a request that is answered in one step: the hook, then the handler
Serve(route, url, request, tok, h, r) ==
    IF h.sent
    THEN /\ reply' = Reply(route, request, tok, "rejected", NoUser, FALSE, 401,
                           Unauthorized, NULL)
         /\ UNCHANGED <<db, tokens>>
    ELSE /\ reply' = Reply(route, request, tok,
                           IF url \in publicRoutes THEN "skipped" ELSE "passed",
                           h.user, TRUE, r.status, r.body, NULL)
         /\ db' = r.db
         /\ tokens' = tokens \cup r.issued

\* POST /api/auth/register
Register ==
    /\ mig.pc = "ready"
    /\ \E userData \in RegisterBodies :
         LET url == "/api/auth/register"
             id == FreshUserId(db)
             h == onRequest(db, engine, tokens, now, url, NoToken)
             r == registerRoute(db, engine, id, userData, now)
         IN /\ Serve("POST /api/auth/register", url, userData, NoToken, h, r)
            /\ registered' =
                 IF r.status = 201
                 THEN registered \cup {[email |-> userData.email,
                                        password |-> userData.password, userId |-> id]}
                 ELSE registered
    /\ UNCHANGED <<engine, revision, mig, now, snap, db0, last, job, inflight>>

\* POST /api/auth/login
Login ==
    /\ mig.pc = "ready"
    /\ \E credentials \in LoginBodies :
         LET url == "/api/auth/login"
             h == onRequest(db, engine, tokens, now, url, NoToken)
             r == loginRoute(db, engine, credentials, now)
         IN Serve("POST /api/auth/login", url, credentials, NoToken, h, r)
    /\ UNCHANGED <<engine, revision, mig, now, snap, db0, last, job, registered, inflight>>

\* POST /api/auth/change-password
ChangePassword ==
    /\ mig.pc = "ready"
    /\ \E tok \in RequestTokens, body \in ChangePasswordBodies :
         LET url == "/api/auth/change-password"
             h == onRequest(db, engine, tokens, now, url, tok)
             r == changePasswordRoute(db, engine, h.user, body, now)
         IN /\ Serve("POST /api/auth/change-password", url, body, tok, h, r)
            /\ registered' =
                 IF ~h.sent /\ r.status = 200
                 THEN {g \in registered : g.userId # h.user.userId}
                 ELSE registered
    /\ UNCHANGED <<engine, revision, mig, now, snap, db0, last, job, inflight>>

\* GET /api/auth/profile
GetProfile ==
    /\ mig.pc = "ready"
    /\ \E tok \in RequestTokens :
         LET url == "/api/auth/profile"
             h == onRequest(db, engine, tokens, now, url, tok)
             r == profileRoute(db, engine, h.user)
         IN Serve("GET /api/auth/profile", url, EmptyObject, tok, h, r)
    /\ UNCHANGED <<engine, revision, mig, now, snap, db0, last, job, registered, inflight>>

\* POST /api/auth/refresh
Refresh ==
    /\ mig.pc = "ready"
    /\ \E tok \in RequestTokens :
         LET url == "/api/auth/refresh"
             h == onRequest(db, engine, tokens, now, url, tok)
             r == refreshRoute(db, engine, h.user, now)
         IN Serve("POST /api/auth/refresh", url, EmptyObject, tok, h, r)
    /\ UNCHANGED <<engine, revision, mig, now, snap, db0, last, job, registered, inflight>>

\* the query strings of GET /api/auth/users
UsersQueries == {EmptyObject, [role |-> "admin"]}

\* GET /api/auth/users
GetUsers ==
    /\ mig.pc = "ready"
    /\ \E tok \in RequestTokens, query \in UsersQueries :
         LET url == "/api/auth/users"
             h == onRequest(db, engine, tokens, now, url, tok)
             r == usersRoute(db, engine, h.user, query)
         IN Serve("GET /api/auth/users", url, query, tok, h, r)
    /\ UNCHANGED <<engine, revision, mig, now, snap, db0, last, job, registered, inflight>>

\* the query strings of GET /api/cro/analyses
AnalysesQueries == {EmptyObject, [status |-> "completed"]}

\* GET /api/cro/analyses
GetAnalyses ==
    /\ mig.pc = "ready"
    /\ job = NoJob
    /\ \E tok \in RequestTokens, query \in AnalysesQueries :
         LET url == "/api/cro/analyses"
             h == onRequest(db, engine, tokens, now, url, tok)
             r == analysesRoute(db, engine, h.user, query)
         IN Serve("GET /api/cro/analyses", url, query, tok, h, r)
    /\ UNCHANGED <<engine, revision, mig, now, snap, db0, last, job, registered, inflight>>

\* GET /api/cro/analysis/:id
GetAnalysis ==
    /\ mig.pc = "ready"
    /\ job = NoJob
    /\ \E tok \in RequestTokens, id \in DOMAIN Rows(db, "analyses") \cup {MissingId} :
         LET url == "/api/cro/analysis/" \o id
             h == onRequest(db, engine, tokens, now, url, tok)
             r == getAnalysisRoute(db, engine, h.user, id)
         IN Serve("GET /api/cro/analysis/:id", url, [id |-> id], tok, h, r)
    /\ UNCHANGED <<engine, revision, mig, now, snap, db0, last, job, registered, inflight>>

\* UserRepository.update(id, {isActive}): an account is deactivated or
\* reactivated
SetUserActive ==
    /\ mig.pc = "ready"
    /\ AcceptsQuestionMarks(engine)
    /\ \E id \in DOMAIN Rows(db, "users"), flag \in BOOLEAN :
         /\ Rows(db, "users")[id].is_active # flag
         /\ db' = userUpdate(db, id, [isActive |-> flag], now).db
         /\ registered' = IF flag THEN registered
                          ELSE {g \in registered : g.userId # id}
    /\ reply' = NoReply
    /\ UNCHANGED <<engine, revision, mig, now, snap, db0, last, tokens, job, inflight>>

\* UserRepository.update(id, {role: 'user'}): an administrator is made an
\* ordinary user
SetUserRole ==
    /\ mig.pc = "ready"
    /\ AcceptsQuestionMarks(engine)
    /\ \E id \in DOMAIN Rows(db, "users") :
         /\ Rows(db, "users")[id].role = "admin"
         /\ db' = userUpdate(db, id, [role |-> "user"], now).db
    /\ reply' = NoReply
    /\ UNCHANGED <<engine, revision, mig, now, snap, db0, last, tokens, job, registered,
                   inflight>>

\* UserRepository.delete(id), between two requests
UserRepositoryDelete ==
    /\ mig.pc = "ready"
    /\ job = NoJob
    /\ TableExists(db, "users")
    /\ \E id \in DOMAIN Rows(db, "users") :
         db' = userDelete(db, engine, id).db
    /\ reply' = NoReply
    /\ UNCHANGED <<engine, revision, mig, now, snap, db0, last, tokens, job, registered, inflight>>

----------------------------------------------------------------------------
(* POST /api/cro/analyze, stage by stage.                                  *)

AnalyzeRoute == "POST /api/cro/analyze"

\* fastify.croService, decorated when the service plugin is registered
croService == TRUE

PageFetched == [html |-> "<p>x</p>", text |-> "buy now"]
PageEmpty == [html |-> "", text |-> ""]

\* text.split(' ').length on the texts of the model
splitLength(text) == IF text = "" THEN 1 ELSE 2

\* what the scrape can do: return the page, return the empty page it
\* substitutes for a page that could not be loaded, or reject
ScrapeOutcomes ==
    {[ok |-> TRUE, page |-> PageFetched], [ok |-> TRUE, page |-> PageEmpty],
     [ok |-> FALSE, page |-> PageEmpty]}

ScrapedPatch(pageData) ==
    [metadata |-> [wordCount |-> splitLength(pageData.text),
                   pageSize |-> Len(pageData.html),
                   screenshotPath |-> "landing-page-snapshot.png"]]

\* a final patch that writes the status a new record has
CompletedPatchPending(analysis, pdfPath) ==
    [analysis |-> analysis, pdfPath |-> pdfPath, status |-> "pending",
     metadata |-> [analysisTokens |-> Len(analysis)]]

\* the patch of the final update
CompletedPatch(analysis, pdfPath) ==
    [analysis |-> analysis, pdfPath |-> pdfPath, status |-> "completed",
     metadata |-> [analysisTokens |-> Len(analysis)]]

\* the catch block: the request is answered 500 and the record is left as
\* it is
AnalysisFailed(details) ==
    /\ reply' = Reply(AnalyzeRoute, job.request, job.token, "earlier", job.user, TRUE,
                      500, [error |-> "Analysis failed", details |-> details], job.id)
    /\ job' = NoJob
    /\ UNCHANGED db

\* the request arrives: the hook, the check of the body, and the creation
\* of the record
PostAnalyze ==
    /\ mig.pc = "ready"
    /\ job = NoJob
    /\ Cardinality(CreatedAnalyses(db)) < MaxAnalyses
    /\ \E tok \in RequestTokens, body \in AnalyzeBodies :
         LET h == onRequest(db, engine, tokens, now, "/api/cro/analyze", tok)
             id == FreshAnalysisId(db)
             answer(status, content) ==
                 /\ reply' = Reply(AnalyzeRoute, body, tok, "passed", h.user, TRUE,
                                   status, content, NULL)
                 /\ UNCHANGED <<db, job>>
         IN IF h.sent
            THEN /\ reply' = Reply(AnalyzeRoute, body, tok, "rejected", NoUser, FALSE,
                                   401, Unauthorized, NULL)
                 /\ UNCHANGED <<db, job>>
            ELSE IF Falsy(body, "url")
            THEN answer(400, [error |-> "Missing required parameter: url"])
            ELSE IF h.user = NoUser
            THEN answer(401, [error |-> "Authentication required"])
            ELSE LET created ==
                         IF AcceptsQuestionMarks(engine)
                         THEN analysisCreate(db, id, [url |-> body.url, status |-> "pending"],
                                             now)
                         ELSE Err(db)
                 IN IF ~created.ok
                    THEN answer(500, [error |-> "Analysis failed",
                                      details |-> "SQLITE_CONSTRAINT"])
                    ELSE /\ db' = created.db
                         /\ job' = [NoJob EXCEPT !.pc = "mark_processing", !.id = id,
                                                 !.request = body, !.token = tok,
                                                 !.user = h.user]
                         /\ reply' = Reply(AnalyzeRoute, body, tok, "passed", h.user,
                                           TRUE, 0, EmptyObject, id)
    /\ UNCHANGED <<engine, revision, mig, now, snap, db0, last, tokens, registered, inflight>>

\* update(id, {status: 'processing'}), then the check that the service is
\* there
markProcessing ==
    /\ job.pc = "mark_processing"
    /\ LET d == analysisUpdate(db, job.id, [status |-> "processing"], now).db IN
         IF croService
         THEN /\ db' = d
              /\ job' = [job EXCEPT !.pc = "scrape"]
              /\ reply' = NoReply
         ELSE /\ db' = analysisUpdate(d, job.id,
                                      [status |-> "failed",
                                       errorMessage |-> "CRO Service not available"],
                                      now).db
              /\ job' = NoJob
              /\ reply' = Reply(AnalyzeRoute, job.request, job.token, "earlier",
                                job.user, TRUE, 500,
                                [error |-> "CRO Service not available"], job.id)
    /\ UNCHANGED <<engine, revision, mig, now, snap, db0, last, tokens, registered, inflight>>

\* croService.scrapePage
scrapePage ==
    /\ job.pc = "scrape"
    /\ \E out \in ScrapeOutcomes :
         IF out.ok
         THEN /\ job' = [job EXCEPT !.pc = "save_metadata", !.pageData = out.page]
              /\ reply' = NoReply
              /\ UNCHANGED db
         ELSE AnalysisFailed("browser could not be launched")
    /\ UNCHANGED <<engine, revision, mig, now, snap, db0, last, tokens, registered, inflight>>

\* update(id, {metadata}) with what the scrape found
saveMetadata ==
    /\ job.pc = "save_metadata"
    /\ db' = analysisUpdate(db, job.id, ScrapedPatch(job.pageData), now).db
    /\ job' = [job EXCEPT !.pc = "analyze"]
    /\ reply' = NoReply
    /\ UNCHANGED <<engine, revision, mig, now, snap, db0, last, tokens, registered, inflight>>

\* croService.analyzeWithGPT: the report, or a rejection
analyzeWithGPT ==
    /\ job.pc = "analyze"
    /\ \/ /\ job' = [job EXCEPT !.pc = "pdf", !.analysis = "report"]
          /\ reply' = NoReply
          /\ UNCHANGED db
       \/ AnalysisFailed("the model could not be reached")
    /\ UNCHANGED <<engine, revision, mig, now, snap, db0, last, tokens, registered, inflight>>

\* croService.generateCROReportPDF: the file is written, or a rejection
generateCROReportPDF ==
    /\ job.pc = "pdf"
    /\ \/ /\ job' = [job EXCEPT !.pc = "complete"]
          /\ reply' = NoReply
          /\ UNCHANGED db
       \/ AnalysisFailed("the report could not be written")
    /\ UNCHANGED <<engine, revision, mig, now, snap, db0, last, tokens, registered, inflight>>

\* the final update and the answer
completeAnalysis ==
    /\ job.pc = "complete"
    /\ LET pdfPath == "reports/CRO_Report_" \o job.id \o ".pdf" IN
         /\ db' = analysisUpdate(db, job.id, CompletedPatch(job.analysis, pdfPath), now).db
         /\ reply' = Reply(AnalyzeRoute, job.request, job.token, "earlier", job.user,
                           TRUE, 200,
                           [analysis |-> job.analysis, pdfGenerated |-> TRUE,
                            analysisId |-> job.id],
                           job.id)
    /\ job' = NoJob
    /\ UNCHANGED <<engine, revision, mig, now, snap, db0, last, tokens, registered, inflight>>

Analyze ==
    \/ PostAnalyze
    \/ markProcessing
    \/ scrapePage
    \/ saveMetadata
    \/ analyzeWithGPT
    \/ generateCROReportPDF
    \/ completeAnalysis

----------------------------------------------------------------------------

(* Spec: the server and its analysis routes.  The process starts on a      *)
(* database, runs the bring-up of the revision it was built from and then  *)
(* serves the analysis routes to the users the database holds, who signed  *)
(* in at instant 0.                                                        *)

Revisions == {"part_000", "part_001"}

\* the database of a deployment that has two users and one completed
\* analysis and was brought up without the ownership column
ServedDb ==
    [tables |-> ("analyses" :> [cols |-> "legacy",
                                rows |-> ("old1" :> LegacyRow("completed"))])
                @@ ("users" :> [cols |-> "users",
                                rows |-> [id \in {"w1", "w2"} |-> OldUserRow(id)]]),
     indexes |-> LegacyIndexes \cup UsersIndexes]

\* the tokens the users of a database were given at instant t
SignedAt(d, t) ==
    IF ~TableExists(d, "users") THEN {}
    ELSE {generateToken(mapRowToUser(id, Rows(d, "users")[id]), t) :
             id \in DOMAIN Rows(d, "users")}

Init ==
    /\ engine \in Engines
    /\ revision \in Revisions
    /\ db \in (IF engine = "sqlite" THEN {EmptyDb, ServedDb} ELSE {EmptyDb})
    /\ db0 = db
    /\ mig = MigIdle
    /\ now \in 0..MaxTime
    /\ snap = NoSnap
    /\ last = NoCall
    /\ tokens = SignedAt(db, 0)
    /\ job = NoJob
    /\ reply = NoReply
    /\ registered = {}
    /\ inflight = NoInflight

Next ==
    \/ BringUp
    \/ runMigrationsEarlier
    \/ GetAnalysis
    \/ GetAnalyses
    \/ Analyze
    \/ UserRepositoryDelete

Spec == Init /\ [][Next]_vars

----------------------------------------------------------------------------
(* SpecAuth: the authentication routes on a brought-up database without    *)
(* users, on either engine, and the deactivation of an account.            *)

AuthDb ==
    [tables |-> ("analyses" :> [cols |-> "legacy", rows |-> EmptyRows])
                @@ ("users" :> [cols |-> "users", rows |-> EmptyRows]),
     indexes |-> LegacyIndexes \cup UsersIndexes]

InitAuth ==
    /\ engine \in Engines
    /\ revision = "part_001"
    /\ db = AuthDb
    /\ db0 = db
    /\ mig = MigServing
    /\ now = MaxTime
    /\ snap = NoSnap
    /\ last = NoCall
    /\ tokens = {}
    /\ job = NoJob
    /\ reply = NoReply
    /\ registered = {}
    /\ inflight = NoInflight

NextAuth ==
    \/ Register
    \/ Login
    \/ ChangePassword
    \/ GetUsers
    \/ GetProfile
    \/ Refresh
    \/ SetUserActive

SpecAuth == InitAuth /\ [][NextAuth]_vars

----------------------------------------------------------------------------
(* Claims about the bring-up (SpecMig).                                    *)

\* C8: once a bring-up has completed on a database, every later run on it
\* changes nothing (tables, indexes, user rows and analysis rows stay as the
\* first completed run left them) and no later run fails.
C8_BringUpIdempotent ==
    snap.taken => (db = snap.db /\ mig.pc # "failed")

\* a second run has completed on a database that started with legacy rows
\* and no users table
C8_Witness ==
    /\ mig.runs = 2 /\ mig.pc = "ready"
    /\ TableExists(db0, "analyses") /\ ~TableExists(db0, "users")
    /\ DOMAIN Rows(db0, "analyses") # {}

LegacyWithoutUsers(d) ==
    /\ TableExists(d, "analyses") /\ Cols(d, "analyses") = "legacy"
    /\ (TableExists(d, "users") => DOMAIN Rows(d, "users") = {})

\* C9: from an analyses table without the ownership column holding N rows
\* and no user, the completed embedded-engine bring-up leaves exactly one
\* user, the synthesized admin, and exactly the N original rows, each
\* referencing that user.
C9_LegacyRowsGoToAdmin ==
    (engine = "sqlite" /\ mig.pc = "ready" /\ LegacyWithoutUsers(db0)) =>
        /\ DOMAIN Rows(db, "users") = {defaultUserId}
        /\ Rows(db, "users")[defaultUserId].role = "admin"
        /\ Cols(db, "analyses") = "owned"
        /\ DOMAIN Rows(db, "analyses") = DOMAIN Rows(db0, "analyses")
        /\ \A id \in DOMAIN Rows(db0, "analyses") :
              Rows(db, "analyses")[id] =
                  [Rows(db0, "analyses")[id] EXCEPT !.user_id = defaultUserId]

\* the bring-up has completed on a legacy database with N = MaxLegacy rows,
\* one of them completed, and an empty users table
C9_Witness ==
    /\ engine = "sqlite" /\ mig.pc = "ready" /\ LegacyWithoutUsers(db0)
    /\ TableExists(db0, "users")
    /\ Cardinality(DOMAIN Rows(db0, "analyses")) = MaxLegacy
    /\ \E id \in DOMAIN Rows(db, "analyses") :
          Rows(db, "analyses")[id].status = "completed"

----------------------------------------------------------------------------
(* Claims about the repositories (SpecRepo).                               *)

AnalysisColumns ==
    {"user_id", "url", "page_title", "analysis", "pdf_path", "metadata", "status",
     "error_message", "created_at", "updated_at"}

UserColumns ==
    {"email", "password", "first_name", "last_name", "role", "is_active",
     "last_login_at", "created_at", "updated_at"}

\* the column each field of a patch is written to
ColumnOf ==
    [analysis |-> "analysis", pdfPath |-> "pdf_path", metadata |-> "metadata",
     status |-> "status", errorMessage |-> "error_message",
     firstName |-> "first_name", lastName |-> "last_name", role |-> "role",
     isActive |-> "is_active"]

PatchedColumns(data) == {ColumnOf[k] : k \in DOMAIN data} \cup {"updated_at"}

\* the step from d to e changed, in table t with columns cols, nothing but
\* the patched columns of row id; on a missing id it changed nothing and
\* returned null
FrameOf(d, e, t, cols, call) ==
    /\ \A x \in DOMAIN d.tables : x # t => e.tables[x] = d.tables[x]
    /\ DOMAIN e.tables = DOMAIN d.tables
    /\ e.indexes = d.indexes
    /\ DOMAIN Rows(e, t) = DOMAIN Rows(d, t)
    /\ \A i \in DOMAIN Rows(d, t) :
          \A c \in cols :
             (i # call.id \/ c \notin PatchedColumns(call.data)) =>
                 Rows(e, t)[i][c] = Rows(d, t)[i][c]
    /\ call.id \notin DOMAIN Rows(d, t) => (e = d /\ call.result = NotFound)
    /\ call.id \in DOMAIN Rows(d, t) => call.result.found

\* C5: an update through either repository changes, in the row it names,
\* only the columns of the fields present in the patch and updated_at, and
\* no other row; on a missing id it returns null and changes nothing.
C5_UpdateFrame ==
    [][/\ last'.op = "AnalysisRepository.update" =>
            FrameOf(db, db', "analyses", AnalysisColumns, last')
       /\ last'.op = "UserRepository.update" =>
            FrameOf(db, db', "users", UserColumns, last')]_vars

\* an update with a patch of one field has been applied to a completed row
C5_Witness ==
    /\ last.op = "AnalysisRepository.update"
    /\ last.result.found
    /\ DOMAIN last.data = {"errorMessage"}
    /\ Rows(db, "analyses")[last.id].status = "completed"
    /\ Rows(db, "analyses")[last.id].error_message = "boom"

\* C10: on an empty analyses table getStats returns zero for total,
\* completed, failed, pending and the average processing time; with no
\* completed row the average is zero whatever the other rows are.
C10_StatsZero ==
    last.op = "AnalysisRepository.getStats" =>
        LET rows == Rows(db, "analyses") IN
        /\ DOMAIN rows = {} =>
              /\ last.result.total = 0 /\ last.result.completed = 0
              /\ last.result.failed = 0 /\ last.result.pending = 0
              /\ last.result.averageProcessingTime = Zero
        /\ (\A id \in DOMAIN rows : rows[id].status # "completed") =>
              /\ last.result.completed = 0
              /\ last.result.averageProcessingTime = Zero

\* getStats has been called on an empty analyses table
C10_Witness ==
    /\ last.op = "AnalysisRepository.getStats"
    /\ DOMAIN Rows(db, "analyses") = {}

----------------------------------------------------------------------------
(* Claims about the analysis routes (Spec).                                *)

\* C1: an authenticated GET /api/cro/analysis/:id for a record whose owner
\* is a user other than the caller is answered 403 and the answer is not
\* the record.
C1_OtherUsersRecordForbidden ==
    (/\ reply.route = "GET /api/cro/analysis/:id"
     /\ reply.hook = "passed"
     /\ reply.request.id \in DOMAIN Rows(db, "analyses")
     /\ Rows(db, "analyses")[reply.request.id].user_id \notin {NULL, reply.user.userId})
    => /\ reply.status = 403
       /\ reply.body # mapRowToRecord(reply.request.id,
                                      Rows(db, "analyses")[reply.request.id])

\* user w2, holding a valid token, has asked for the record that the
\* bring-up gave to user w1
C1_Witness ==
    /\ reply.route = "GET /api/cro/analysis/:id"
    /\ reply.hook = "passed"
    /\ reply.user.userId = "w2"
    /\ reply.request.id = "old1"
    /\ Rows(db, "analyses")["old1"].user_id = "w1"
    /\ reply.status = 403

Forward(s, t) ==
    \/ s = t
    \/ <<s, t>> \in {<<"pending", "processing">>, <<"processing", "completed">>,
                     <<"processing", "failed">>}

\* C6: while requests are served every new analysis record is pending, the
\* status of a record changes only along pending -> processing ->
\* completed | failed, and a record disappears only with the user that owns
\* it; so a completed record never holds pending or processing again.
C6_StatusMovesForward ==
    [][(mig.pc = "ready" /\ mig'.pc = "ready") =>
          /\ \/ DOMAIN Rows(db, "analyses") \subseteq DOMAIN Rows(db', "analyses")
             \/ DOMAIN Rows(db', "users") # DOMAIN Rows(db, "users")
          /\ \A id \in DOMAIN Rows(db', "analyses") :
                IF id \in DOMAIN Rows(db, "analyses")
                THEN Forward(Rows(db, "analyses")[id].status,
                             Rows(db', "analyses")[id].status)
                ELSE Rows(db', "analyses")[id].status = "pending"]_vars

\* an analyze request has been answered 200 and the record it created is
\* completed
C6_Witness ==
    /\ reply.route = AnalyzeRoute
    /\ reply.status = 200
    /\ reply.record \in CreatedAnalyses(db)
    /\ Rows(db, "analyses")[reply.record].status = "completed"

\* C7: once an analyze request that created a record has been answered, the
\* record is completed or failed, and when the answer is not the success
\* answer the record is failed and carries an error message.
C7_FailedStageMarksRecordFailed ==
    (reply.route = AnalyzeRoute /\ reply.status # 0 /\ reply.record # NULL) =>
        LET row == Rows(db, "analyses")[reply.record] IN
        /\ row.status \in {"completed", "failed"}
        /\ reply.status # 200 => (row.status = "failed" /\ row.error_message # NULL)

----------------------------------------------------------------------------
(* Claims about the authentication routes (SpecAuth).                      *)

\* C2: a request on a protected route that carries a token the service
\* signed and that has not expired, for a user whose active flag is false,
\* is answered 401 by the hook and its handler is not run.
C2_DeactivatedTokenRejected ==
    (/\ reply.hook \in {"passed", "rejected"}
     /\ reply.token \in tokens
     /\ now < reply.token.exp
     /\ reply.token.userId \in DOMAIN Rows(db, "users")
     /\ Rows(db, "users")[reply.token.userId].is_active = FALSE)
    => (reply.hook = "rejected" /\ reply.status = 401 /\ ~reply.handled)

\* a deactivated user's unexpired token has been presented and refused
C2_Witness ==
    /\ reply.hook = "rejected"
    /\ reply.token \in tokens
    /\ now < reply.token.exp
    /\ reply.token.userId \in DOMAIN Rows(db, "users")
    /\ Rows(db, "users")[reply.token.userId].is_active = FALSE

StoredEmail(d, body) == Has(body, "email") /\ toLowerCase(body.email) \in UserEmails(d)

UniqueEmails(d) ==
    \A x, y \in DOMAIN Rows(d, "users") :
        Rows(d, "users")[x].email = Rows(d, "users")[y].email => x = y

\* the body passes the checks the register route makes before it calls the
\* service
PassesValidation(body) ==
    /\ ~Falsy(body, "email") /\ ~Falsy(body, "password")
    /\ ~Falsy(body, "firstName") /\ ~Falsy(body, "lastName")
    /\ emailRegexTest(body.email)
    /\ Len(body.password) >= MinPasswordLength

\* C3 as stated: every register request whose address, lowercased, is
\* already stored is answered 409 and inserts nothing, and no two user rows
\* hold the same address.
C3_StoredEmailAlwaysConflict ==
    /\ [][(reply'.route = "POST /api/auth/register" /\ StoredEmail(db, reply'.request))
             => (reply'.status = 409 /\ db' = db)]_vars
    /\ [](UniqueEmails(db))

\* C3, amended: every register request that passes the route's validation
\* and whose address, lowercased, is already stored is answered 409 and
\* inserts nothing; a request with a stored address in any case inserts
\* nothing; and no two user rows hold the same address.
C3_ValidStoredEmailConflict ==
    /\ [][(reply'.route = "POST /api/auth/register" /\ StoredEmail(db, reply'.request))
             => /\ db' = db
                /\ PassesValidation(reply'.request) => reply'.status = 409]_vars
    /\ [](UniqueEmails(db))

\* the address stored as a@x.io has been registered again as A@x.io and
\* the request was answered 409
C3_Witness ==
    /\ reply.route = "POST /api/auth/register"
    /\ reply.request.email = "A@x.io"
    /\ "a@x.io" \in UserEmails(db)
    /\ reply.status = 409
    /\ Cardinality(DOMAIN Rows(db, "users")) = 2

\* C4: a login with the address and password of a registration that
\* succeeded, with no deactivation or password change of that user since,
\* is answered 200 with a token whose payload carries the id, the address
\* and the role stored for that user.
C4_LoginAfterRegistration ==
    \A g \in registered :
        (/\ reply.route = "POST /api/auth/login"
         /\ reply.request = [email |-> g.email, password |-> g.password])
        => /\ reply.status = 200
           /\ reply.body.token.userId = g.userId
           /\ reply.body.token.email = Rows(db, "users")[g.userId].email
           /\ reply.body.token.role = Rows(db, "users")[g.userId].role

\* the user registered as A@x.io with the admin role has logged in
C4_Witness ==
    /\ reply.route = "POST /api/auth/login"
    /\ reply.status = 200
    /\ \E g \in registered :
          /\ reply.request = [email |-> g.email, password |-> g.password]
          /\ g.email = "A@x.io"
          /\ Rows(db, "users")[g.userId].role = "admin"

-----------------------------------------------------------------------------
(* C11: the database service is usable only after the whole bring-up.      *)

\* the process is past initialize without a connection
OpenFailed == mig.pc # "idle" /\ ~mig.opened

\* the connection is open, initialize has resolved and the tables exist
BringUpCompleted ==
    /\ mig.opened
    /\ mig.pc = "ready"
    /\ TableExists(db, "users")
    /\ TableExists(db, "analyses")

-----------------------------------------------------------------------------
(* C12: the hook in front of the routes that are not public.               *)

\* C12: for every URL that is not public, the handler runs only if the
\* request carried a token that verifyToken accepted, and request.user is
\* then that token's payload; every other such request is answered 401 and
\* its handler does not run.  A request whose answer comes in a later step
\* keeps the payload the hook gave it.
C12_HandlerOnlyBehindAcceptedToken ==
    [][/\ reply'.hook \in {"passed", "rejected"} =>
            LET v == verifyToken(db, engine, tokens, now, reply'.token) IN
            /\ reply'.handled <=> (reply'.token # NoToken /\ v.ok)
            /\ reply'.handled => (reply'.user = v.value /\ reply'.hook = "passed")
            /\ ~reply'.handled => (reply'.status = 401 /\ reply'.user = NoUser
                                   /\ db' = db /\ job' = job)
       /\ job'.pc # "none" => (job'.user = job'.token /\ job'.token \in tokens)
       /\ reply'.hook = "earlier" => (reply'.user = job.user /\ reply'.token = job.token)
      ]_vars

\* a handler has run behind an accepted token
C12_Witness ==
    /\ reply.hook = "passed" /\ reply.handled
    /\ reply.token \in tokens /\ reply.user = reply.token

-----------------------------------------------------------------------------
(* C13: the list of users is for administrators.                           *)

UsersRoute == "GET /api/auth/users"

\* the answer carries something of a stored user
CarriesUserData(body) == Has(body, "users") \/ Has(body, "user")

\* C13: GET /api/auth/users answers with the user list only when the
\* verified token's role is admin; a caller who is authenticated with
\* another role is answered 403 and gets no user data.
C13_UserListOnlyForAdmin ==
    reply.route = UsersRoute =>
        /\ CarriesUserData(reply.body) =>
               (reply.handled /\ reply.user # NoUser /\ reply.user.role = "admin"
                /\ reply.user \in tokens)
        /\ (reply.handled /\ reply.user # NoUser /\ reply.user.role # "admin") =>
               (reply.status = 403 /\ ~CarriesUserData(reply.body))

\* a signed-in user who is no administrator has asked for the list
C13_Witness ==
    /\ reply.route = UsersRoute /\ reply.handled
    /\ reply.user # NoUser /\ reply.user.role = "user"
    /\ reply.status = 403
    /\ Rows(db, "users") # EmptyRows

-----------------------------------------------------------------------------
(* C14: who is given a token by login.                                     *)

LoginRoute == "POST /api/auth/login"

\* a user with that email exists, is active and has that password
ValidCredentials(d, credentials) ==
    \E u \in DOMAIN Rows(d, "users") :
        LET row == Rows(d, "users")[u] IN
        /\ row.email = toLowerCase(credentials.email)
        /\ row.is_active = TRUE
        /\ bcryptCompare(credentials.password, row.password)

\* C14: AuthServiceImpl.login issues a token if and only if a user with
\* that email exists, is active and the password matches the stored hash;
\* in every other case it throws, the route answers 401, no token is
\* issued and last_login_at is unchanged.
C14_LoginTokenIffValidCredentials ==
    [][(reply'.route = LoginRoute /\ reply'.status # 400) =>
          IF ValidCredentials(db, reply'.request)
          THEN /\ reply'.status = 200
               /\ Has(reply'.body, "token")
               /\ reply'.body.token \in tokens'
          ELSE /\ reply'.status = 401
               /\ ~Has(reply'.body, "token")
               /\ tokens' = tokens
               /\ db' = db
      ]_vars

-----------------------------------------------------------------------------
(* C15: the modification time.                                             *)

\* the table a repository operation writes to
TableOf(op) ==
    IF op = "AnalysisRepository.update" THEN "analyses" ELSE "users"

MutatingOperations ==
    {"AnalysisRepository.update", "UserRepository.update",
     "UserRepository.changePassword", "UserRepository.updateLastLogin"}

\* C15: every mutating repository operation on an existing row
\* (AnalysisRepository.update, UserRepository.update, changePassword,
\* updateLastLogin) sets the row's updated_at to the time of the operation.
C15_MutationsStampUpdatedAt ==
    (last.op \in MutatingOperations
        /\ last.id \in DOMAIN Rows(db0, TableOf(last.op))) =>
        Rows(db, TableOf(last.op))[last.id].updated_at = now

-----------------------------------------------------------------------------
(* C16: the metadata of a record.                                          *)

\* the metadata object stored for a record
StoredMetadata(d, id) == JSONparse(Rows(d, "analyses")[id].metadata)

\* what the scrape of a page contributes
FromScrape(pageData) ==
    [wordCount |-> splitLength(pageData.text), pageSize |-> Len(pageData.html),
     screenshotPath |-> "landing-page-snapshot.png"]

\* C16: an update with a metadata patch stores the previous metadata
\* overlaid by the patch (the patch wins on the keys it has, the other keys
\* are kept); after a successful analyze request the record's metadata
\* holds wordCount, pageSize and screenshotPath from the scrape together
\* with analysisTokens, the length of the report.
C16_MetadataOverlaidByPatch ==
    [][/\ job.pc = "save_metadata" =>
            StoredMetadata(db', job.id)
                = FromScrape(job.pageData) @@ StoredMetadata(db, job.id)
       /\ job.pc = "complete" =>
            /\ StoredMetadata(db', job.id)
                 = [analysisTokens |-> Len(job.analysis)] @@ StoredMetadata(db, job.id)
            /\ reply'.status = 200
            /\ \A k \in {"wordCount", "pageSize", "screenshotPath"} :
                 /\ Has(StoredMetadata(db', job.id), k)
                 /\ StoredMetadata(db', job.id)[k] = FromScrape(job.pageData)[k]
            /\ StoredMetadata(db', job.id).analysisTokens = Len(job.analysis)
      ]_vars

\* an analyze request has succeeded on a page that had text
C16_Witness ==
    /\ reply.route = AnalyzeRoute /\ reply.status = 200
    /\ StoredMetadata(db, reply.record)
         = [wordCount |-> 2, pageSize |-> 8, analysisTokens |-> 6,
            screenshotPath |-> "landing-page-snapshot.png"]

-----------------------------------------------------------------------------
(* C17: every analysis has an owner.                                       *)

-----------------------------------------------------------------------------
(* C18: the indexes after the bring-up.                                    *)

\* table t has an index on column col
Indexed(d, t, col) == \E i \in d.indexes : i.table = t /\ i.col = col

\* C18: after the bring-up has completed, from any starting schema (empty
\* database, legacy analyses table with its indexes and without the
\* ownership column, or a database already migrated), the analyses table has
\* indexes on status, created_at, url and user_id and the users table has
\* indexes on email, role and is_active.
C18_IndexesAfterBringUp ==
    mig.pc = "ready" =>
        /\ \A col \in {"status", "created_at", "url", "user_id"} :
               Indexed(db, "analyses", col)
        /\ \A col \in {"email", "role", "is_active"} : Indexed(db, "users", col)

-----------------------------------------------------------------------------
(* C19: the two engines behind one contract.                               *)

\* C19: every repository operation and every bring-up check issued
\* against the client/server engine returns the same result and leaves the
\* same stored rows as the same operation issued against the embedded
\* engine on the same data.  Stated for the checks of the bring-up and for
\* find and delete of the user repository, on every database an open
\* connection sees while the bring-up runs.
C19_EnginesAgree ==
    /\ (mig.opened /\ TableExists(db, "users")) =>
         checkTableExists(db, "postgresql", "analyses")
            = checkTableExists(db, "sqlite", "analyses")
    /\ (mig.opened /\ TableExists(db, "analyses")) =>
         checkColumnExists(db, "postgresql", "analyses")
            = checkColumnExists(db, "sqlite", "analyses")
    /\ (mig.opened /\ TableExists(db, "users")) =>
         /\ \A filters \in UsersQueries :
               userFind(db, "postgresql", filters) = userFind(db, "sqlite", filters)
         /\ \A id \in DOMAIN Rows(db, "users") \cup {MissingId} :
               userDelete(db, "postgresql", id) = userDelete(db, "sqlite", id)

-----------------------------------------------------------------------------
(* C20: passwords stay inside.                                             *)

AuthRoutes ==
    {"POST /api/auth/register", "POST /api/auth/login", "GET /api/auth/profile",
     "POST /api/auth/change-password", "POST /api/auth/refresh", UsersRoute}

\* the passwords submitted in the requests of the model
SubmittedPasswords == {"password1", "password2", "short"}

\* the user objects of a response body
UsersIn(body) ==
    (IF Has(body, "user") THEN {body.user} ELSE {})
    \cup (IF Has(body, "users") THEN body.users ELSE {})

\* the texts of a response body
TextsIn(body) ==
    {body[k] : k \in DOMAIN body \cap {"error", "message"}}
    \cup UNION {{u[k] : k \in DOMAIN u \cap {"id", "email", "firstName", "lastName", "role"}} :
                  u \in UsersIn(body)}

\* a response body that carries a password or a stored hash
CarriesPassword(body) ==
    \/ DOMAIN body \cap {"password", "currentPassword", "newPassword"} # {}
    \/ \E u \in UsersIn(body) : Has(u, "password")
    \/ Has(body, "token") /\ Has(body.token, "password")
    \/ TextsIn(body) \cap SubmittedPasswords # {}

\* C20: no response of the auth routes (register, login, profile,
\* change-password, refresh, users) contains a user's password or stored
\* password hash, and UserRepository.create and changePassword store only a
\* hash of the submitted password, never the submitted password itself.
C20_PasswordsNeverLeave ==
    /\ reply.route \in AuthRoutes => ~CarriesPassword(reply.body)
    /\ \A u \in DOMAIN Rows(db, "users") :
          /\ Rows(db, "users")[u].password.scheme = "bcrypt"
          /\ Rows(db, "users")[u].password.of \in SubmittedPasswords

\* an administrator has been given the user list after a password was
\* changed
C20_Witness ==
    /\ reply.route = UsersRoute /\ reply.status = 200
    /\ reply.body.users # {}
    /\ \E u \in DOMAIN Rows(db, "users") :
          Rows(db, "users")[u].password = bcryptHash("password2")

-----------------------------------------------------------------------------
(* C21: the shutdown.                                                      *)

\* C21: DatabaseServiceImpl.close never rejects: when closing the
\* connection or the pool fails, the failure is logged and close still
\* resolves, so the onClose hook completes.
C21_CloseNeverRejects == mig.pc # "close_rejected"

-----------------------------------------------------------------------------
(* C22: who is given the rows of a legacy table.                           *)

\* the user of d that was created first
EarliestUser(d) ==
    CHOOSE u \in DOMAIN Rows(d, "users") :
        \A v \in DOMAIN Rows(d, "users") :
            Rows(d, "users")[u].created_at <= Rows(d, "users")[v].created_at

\* C22: when the embedded-engine upgrade runs with at least one existing
\* user, every pre-existing analysis row is assigned to the user with the
\* earliest created_at (so the same user on every run over the same data)
\* and no admin user is synthesized.
C22_EarliestUserOwnsMigratedRows ==
    (engine = "sqlite" /\ mig.pc = "ready"
        /\ TableExists(db0, "analyses") /\ Cols(db0, "analyses") = "legacy"
        /\ TableExists(db0, "users") /\ DOMAIN Rows(db0, "users") # {}) =>
        /\ defaultUserId \notin DOMAIN Rows(db, "users")
        /\ \A id \in DOMAIN Rows(db0, "analyses") :
              Rows(db, "analyses")[id].user_id = EarliestUser(db0)

-----------------------------------------------------------------------------
(* C23: the list of a user's analyses.                                     *)

AnalysesRoute == "GET /api/cro/analyses"

\* C23: GET /api/cro/analyses returns only analysis records owned by the
\* authenticated user: every record in a response sent to user u is owned
\* by u, whatever filters are given.
C23_ListHoldsOwnRecordsOnly ==
    (reply.route = AnalysesRoute /\ reply.status = 200) =>
        \A record \in reply.body.analyses :
            Rows(db, "analyses")[record.id].user_id = reply.user.userId

-----------------------------------------------------------------------------
(* C24: the record of an analyze request belongs to its caller.            *)

\* C24: after POST /api/cro/analyze by the authenticated user u has
\* answered with an analysisId, the stored record's owner is u, and a GET
\* /api/cro/analysis/:id for that id by u (token still valid, user still
\* active) is answered 200 with that record, not 403.
C24_AnalyzeRecordBelongsToCaller ==
    (reply.route = AnalyzeRoute /\ reply.status = 200) =>
        /\ Has(reply.body, "analysisId") /\ reply.body.analysisId = reply.record
        /\ Rows(db, "analyses")[reply.record].user_id = reply.user.userId
        /\ onRequest(db, engine, tokens, now, "/api/cro/analysis/" \o reply.record,
                     reply.token) = [sent |-> FALSE, user |-> reply.user]
        /\ getAnalysisRoute(db, engine, reply.user, reply.record).status = 200
        /\ getAnalysisRoute(db, engine, reply.user, reply.record).body
             = analysisFindById(db, reply.record).value

-----------------------------------------------------------------------------
(* SpecRace: two calls served at the same time.  A handler runs until its  *)
(* next await and another request's handler may run in between, so two     *)
(* registrations, or two updates of one record, interleave at their        *)
(* repository calls.  Each call reads first and writes afterwards.         *)

Callers == {"first", "second"}

\* the ids uuidv4 gives to the two callers' rows
RaceUserId == [first |-> "u1", second |-> "u2"]

\* a call in flight: what it does, where it is, its arguments, what its
\* read returned, and the status it was answered with (0 while it runs)
Call(op, pc, request) ==
    [op |-> op, pc |-> pc, request |-> request, existing |-> NotFound, status |-> 0]

\* register bodies that pass the route's validation
RaceBodies ==
    {[email |-> e, password |-> "password1"] @@ Names : e \in {"a@x.io", "A@x.io", "b@x.io"}}

\* patches for the record both updates are given
RacePatches ==
    {[metadata |-> [wordCount |-> 3]], [metadata |-> [analysisTokens |-> 7]],
     [metadata |-> [loadTime |-> 4], status |-> "completed"], [status |-> "failed"]}

RaceRecord == "old1"

RaceWorkloads ==
    {[p \in Callers |-> Call("register", "find", b[p])] : b \in [Callers -> RaceBodies]}
    \cup {[p \in Callers |-> Call("update", "read", d[p])] : d \in [Callers -> RacePatches]}

\* a database that has been served: no user yet, one record being processed
RaceDb ==
    [tables |-> ("analyses" :> [cols |-> "legacy",
                                rows |-> (RaceRecord :> LegacyRow("processing"))])
                @@ ("users" :> [cols |-> "users", rows |-> EmptyRows]),
     indexes |-> LegacyIndexes \cup UsersIndexes]

InitRace ==
    /\ engine = "sqlite"
    /\ revision = "part_001"
    /\ db = RaceDb
    /\ db0 = db
    /\ mig = MigServing
    /\ now = MaxTime
    /\ snap = NoSnap
    /\ last = NoCall
    /\ tokens = {}
    /\ job = NoJob
    /\ reply = NoReply
    /\ registered = {}
    /\ inflight \in RaceWorkloads

\* the status POST /register answers a rejected registration with
registerErrorStatus(message) == IF includes(message, "already exists") THEN 409 ELSE 500

\* AuthServiceImpl.register, up to its first await: findByEmail
registerFind(p) ==
    /\ inflight[p].op = "register" /\ inflight[p].pc = "find"
    /\ LET existing == userFindByEmail(db, inflight[p].request.email) IN
         inflight' =
            [inflight EXCEPT
               ![p].existing = existing,
               ![p].pc = IF existing.found THEN "done" ELSE "create",
               ![p].status = IF existing.found
                             THEN registerErrorStatus("User with this email already exists")
                             ELSE 0]
    /\ UNCHANGED <<engine, revision, db, mig, now, snap, db0, last, tokens, job, reply,
                   registered>>

\* AuthServiceImpl.register after the lookup: create, the token, the answer
registerCreate(p) ==
    /\ inflight[p].op = "register" /\ inflight[p].pc = "create"
    /\ LET r == userCreate(db, RaceUserId[p], inflight[p].request, now) IN
         IF r.ok
         THEN /\ db' = r.db
              /\ tokens' = tokens
                    \cup {generateToken(userFindById(r.db, RaceUserId[p]).value, now)}
              /\ inflight' = [inflight EXCEPT ![p].pc = "done", ![p].status = 201]
         ELSE /\ inflight' =
                    [inflight EXCEPT
                       ![p].pc = "done",
                       ![p].status = registerErrorStatus(
                           "SQLITE_CONSTRAINT: UNIQUE constraint failed: users.email")]
              /\ UNCHANGED <<db, tokens>>
    /\ UNCHANGED <<engine, revision, mig, now, snap, db0, last, job, reply, registered>>

\* the row an UPDATE writes when the metadata it merges into was read
\* earlier: the columns of the patch, the metadata built from that read
AnalysisUpdatedRowAfterRead(row, existing, data, t) ==
    [AnalysisUpdatedRow(row, data, t) EXCEPT
       !.metadata = IF Has(data, "metadata")
                    THEN JSONstringify(data.metadata @@ existing.metadata)
                    ELSE @]

\* AnalysisRepository.update, up to its first await: findById
updateRead(p) ==
    /\ inflight[p].op = "update" /\ inflight[p].pc = "read"
    /\ LET existing == analysisFindById(db, RaceRecord) IN
         inflight' = [inflight EXCEPT ![p].existing = existing,
                                      ![p].pc = IF existing.found THEN "write" ELSE "done"]
    /\ UNCHANGED <<engine, revision, db, mig, now, snap, db0, last, tokens, job, reply,
                   registered>>

\* AnalysisRepository.update after the read: the UPDATE statement
updateWrite(p) ==
    /\ inflight[p].op = "update" /\ inflight[p].pc = "write"
    /\ db' = WithRows(db, "analyses",
                      [Rows(db, "analyses") EXCEPT
                         ![RaceRecord] = AnalysisUpdatedRowAfterRead(
                                             @, inflight[p].existing.value,
                                             inflight[p].request, now)])
    /\ inflight' = [inflight EXCEPT ![p].pc = "done", ![p].status = 200]
    /\ UNCHANGED <<engine, revision, mig, now, snap, db0, last, tokens, job, reply,
                   registered>>

NextRace ==
    \E p \in Callers :
        \/ registerFind(p)
        \/ registerCreate(p)
        \/ updateRead(p)
        \/ updateWrite(p)

SpecRace == InitRace /\ [][NextRace]_vars

\* both calls have returned
BothDone(op) == \A p \in Callers : inflight[p].op = op /\ inflight[p].pc = "done"

\* C25: when two register requests for the same email are processed
\* concurrently, so that both findByEmail checks run before either insert,
\* the users table ends with exactly one row for that email and the request
\* that loses is answered 409 conflict, not 500.
C25_ConcurrentDuplicateGetsConflict ==
    (/\ BothDone("register")
     /\ toLowerCase(inflight["first"].request.email)
          = toLowerCase(inflight["second"].request.email)
     /\ \A p \in Callers : ~inflight[p].existing.found) =>
        /\ Cardinality({u \in DOMAIN Rows(db, "users") :
                           Rows(db, "users")[u].email
                              = toLowerCase(inflight["first"].request.email)}) = 1
        /\ {inflight[p].status : p \in Callers} = {201, 409}

\* the metadata keys of a patch
PatchKeys(data) == IF Has(data, "metadata") THEN DOMAIN data.metadata ELSE {}

\* C28: when two AnalysisRepository.update calls on the same record,
\* carrying metadata patches with disjoint keys, interleave so that both
\* read the record before either writes, the metadata stored afterwards
\* contains the keys and values of both patches.
C28_ConcurrentPatchesBothStored ==
    (/\ BothDone("update")
     /\ \A p \in Callers : PatchKeys(inflight[p].request) # {}
     /\ PatchKeys(inflight["first"].request) \cap PatchKeys(inflight["second"].request) = {}
     /\ \A p \in Callers :
           inflight[p].existing.value = analysisFindById(db0, RaceRecord).value) =>
        \A p \in Callers : \A k \in PatchKeys(inflight[p].request) :
            /\ Has(JSONparse(Rows(db, "analyses")[RaceRecord].metadata), k)
            /\ JSONparse(Rows(db, "analyses")[RaceRecord].metadata)[k]
                 = inflight[p].request.metadata[k]

-----------------------------------------------------------------------------
(* C26: the role a verified token carries and the role that is stored.     *)

\* SpecRole: registrations, logins and the user list on the database of
\* SpecAuth, with administrators being made ordinary users in between
NextRole ==
    \/ Register
    \/ Login
    \/ GetUsers
    \/ SetUserRole

SpecRole == InitAuth /\ [][NextRole]_vars

\* the role stored now for the user a token names
StoredRole(user) == Rows(db, "users")[user.userId].role

\* C26: a token accepted by verifyToken carries the role currently stored
\* for its user, so after an administrator has been made an ordinary user a
\* token issued before the change no longer opens GET /api/auth/users.
C26_VerifiedRoleIsStoredRole ==
    (reply.handled /\ reply.user # NoUser) =>
        /\ reply.user.role = StoredRole(reply.user)
        /\ (reply.route = UsersRoute /\ reply.status = 200) =>
               StoredRole(reply.user) = "admin"

-----------------------------------------------------------------------------
(* C27: what the public registration can create.                           *)

RegisterRoute == "POST /api/auth/register"

\* C27: a user created through the public POST /register always has the
\* role user: a request that presents no token creates no administrator
\* account and is given no token with the admin role.
C27_PublicRegistrationCreatesUsersOnly ==
    (reply.route = RegisterRoute /\ reply.token = NoToken /\ reply.status = 201) =>
        /\ reply.body.user.role = "user"
        /\ StoredRole([userId |-> reply.body.user.id]) = "user"
        /\ reply.body.token.role = "user"

-----------------------------------------------------------------------------
(* C29: the table recreation interrupted and the startup run again.        *)

\* a run was interrupted and a later run has come to its end
SettledAfterInterrupt == last.op = "interrupted" /\ mig.pc \in {"ready", "failed"}

\* C29: if recreateAnalysesTableWithUserId is interrupted after any one of
\* its statements and startup is run again, the bring-up completes without
\* error and the analyses table has the ownership column and all the rows
\* it held before the first run.
C29_InterruptedRecreationRecovers ==
    SettledAfterInterrupt =>
        /\ mig.pc = "ready"
        /\ TableExists(db, "analyses")
        /\ Cols(db, "analyses") = "owned"
        /\ DOMAIN Rows(db, "analyses") = DOMAIN Rows(db0, "analyses")

-----------------------------------------------------------------------------
(* SpecStandalone: MigrationService.runMigrations, run once on a database  *)
(* that has been served: a users table with at least one user, and an      *)
(* analyses table with or without the ownership column whose rows, where   *)
(* they have an owner, belong to one of the users.                         *)

\* the result of a run: whether it resolved, the database it leaves and the
\* schema statements it handed to the engine, in order
Ran(ok, d, ddl) == [ok |-> ok, db |-> d, ddl |-> ddl]

\* checkIfColumnExists: PRAGMA table_info on the embedded engine; on the
\* client/server engine the statement goes through execute, whose result
\* is {rowCount}, so result.rows is undefined and the answer is falsy
checkIfColumnExists(d, e) ==
    IF e = "sqlite"
    THEN TableExists(d, "analyses") /\ Cols(d, "analyses") \in {"owned", "nullable"}
    ELSE FALSE

\* checkIfForeignKeyExists: true on the embedded engine; on the other one
\* result.rows of execute's {rowCount} again
checkIfForeignKeyExists(d, e) == e = "sqlite"

\* the row recreateAnalysesTable inserts for an existing row
ReinsertedRow(row, userId) ==
    [user_id |-> userId,
     url |-> row.url,
     page_title |-> row.page_title,
     analysis |-> row.analysis,
     pdf_path |-> row.pdf_path,
     metadata |-> row.metadata,
     status |-> row.status,
     error_message |-> row.error_message,
     created_at |-> row.created_at,
     updated_at |-> row.updated_at]

\* the four CREATE INDEX IF NOT EXISTS statements on analyses
WithAnalysesIndexes(d) ==
    AnalysesIndex(AnalysesIndex(AnalysesIndex(AnalysesIndex(d, "analyses", 1).db,
                                              "analyses", 2).db,
                                "analyses", 3).db,
                  "analyses", 4).db

\* MigrationService.recreateAnalysesTable, u being the user that
\* 'SELECT * FROM users LIMIT 1' returns when there is one
recreateAnalysesTable(d, u, t) ==
    LET existingData == IF TableExists(d, "analyses") THEN Rows(d, "analyses")
                        ELSE EmptyRows
        dropped == IF TableExists(d, "analyses") THEN DropTable(d, "analyses").db ELSE d
        created == WithAnalysesIndexes(CreateTable(dropped, "analyses", "owned").db)
        ddl == <<"DROP TABLE IF EXISTS analyses", "CREATE TABLE analyses",
                 "CREATE INDEX IF NOT EXISTS">>
        withUser == IF DOMAIN Rows(created, "users") # {} THEN Ok(created)
                    ELSE InsertUser(created, defaultUserId, DefaultAdminRow(t))
        owner == IF DOMAIN Rows(created, "users") # {} THEN u ELSE defaultUserId
    IN IF ~withUser.ok THEN Ran(FALSE, withUser.db, ddl)
       ELSE Ran(TRUE,
                WithRows(withUser.db, "analyses",
                         [id \in DOMAIN existingData |->
                             ReinsertedRow(existingData[id], owner)]),
                ddl)

\* MigrationService.addUserIdColumn and addForeignKeyConstraint on the
\* client/server engine: ALTER TABLE ... ADD COLUMN user_id, refused when
\* the column is there, then ALTER TABLE ... ADD CONSTRAINT
alterAnalysesTable(d, e, hasUserIdColumn, hasForeignKey) ==
    LET a == IF hasUserIdColumn THEN Ok(d) ELSE AddUserIdColumn(d)
        ddlA == IF hasUserIdColumn THEN <<>>
                ELSE <<"ALTER TABLE analyses ADD COLUMN user_id">>
        ddlB == IF hasForeignKey THEN <<>>
                ELSE <<"ALTER TABLE analyses ADD CONSTRAINT fk_analyses_user_id">>
    IN IF ~a.ok THEN Ran(FALSE, a.db, ddlA)
       ELSE Ran(TRUE, a.db, ddlA \o ddlB)

\* MigrationService.runMigrations
migrationServiceRunMigrations(d, e, u, t) ==
    IF e = "sqlite" THEN recreateAnalysesTable(d, u, t)
    ELSE alterAnalysesTable(d, e, checkIfColumnExists(d, e),
                            checkIfForeignKeyExists(d, e))

\* analyses tables whose rows all belong to owner
OwnedTables(owner) ==
    {[id \in DOMAIN a |-> [a[id] EXCEPT !.user_id = owner]] : a \in LegacyTables}

StandaloneDbs ==
    UNION {{[tables |-> ("analyses" :> [cols |-> "legacy", rows |-> a])
                        @@ ("users" :> [cols |-> "users", rows |-> users]),
             indexes |-> LegacyIndexes \cup UsersIndexes] : a \in LegacyTables}
           \cup
           UNION {{[tables |-> ("analyses" :> [cols |-> "owned", rows |-> a])
                               @@ ("users" :> [cols |-> "users", rows |-> users]),
                    indexes |-> LegacyIndexes \cup UsersIndexes
                                \cup {[name |-> "idx_analyses_user_id",
                                       table |-> "analyses", col |-> "user_id"]}] :
                      a \in OwnedTables(owner)} : owner \in DOMAIN users}
           : users \in OldUsersTables \ {EmptyRows}}

InitStandalone ==
    /\ engine \in Engines
    /\ revision = "part_000"
    /\ db \in StandaloneDbs
    /\ db0 = db
    /\ mig = MigServing
    /\ now = MaxTime
    /\ snap = NoSnap
    /\ last = NoCall
    /\ tokens = {}
    /\ job = NoJob
    /\ reply = NoReply
    /\ registered = {}
    /\ inflight = NoInflight

\* one run of MigrationService.runMigrations
MigrationServiceRunMigrations ==
    /\ last = NoCall
    /\ \E u \in DOMAIN Rows(db, "users") :
         LET r == migrationServiceRunMigrations(db, engine, u, now) IN
           /\ db' = r.db
           /\ last' = [op |-> "MigrationService.runMigrations", ok |-> r.ok, ddl |-> r.ddl]
    /\ UNCHANGED <<http, engine, revision, mig, now, snap, db0>>

NextStandalone == MigrationServiceRunMigrations

SpecStandalone == InitStandalone /\ [][NextStandalone]_vars

\* the run has been made on a database whose analyses table had the column
RanOnOwned ==
    /\ last.op = "MigrationService.runMigrations"
    /\ Cols(db0, "analyses") = "owned"

\* C30: MigrationService.runMigrations on an embedded-engine database whose
\* analyses table already has the ownership column leaves every analysis
\* row as it was, user_id included; on a client/server database that has
\* the column and the foreign key it executes no schema change.
C30_StandaloneMigrationIsNoOp ==
    RanOnOwned =>
        /\ engine = "sqlite" => Rows(db, "analyses") = Rows(db0, "analyses")
        /\ engine = "postgresql" => (last.ok /\ last.ddl = <<>>)

=============================================================================
